---- MODULE Spec2Model ----
(***************************************************************************)
(* Verification model of xtrans-rs:                                        *)
(*   - the localized string-table codec (xt_esp strings.rs) and its second *)
(*     implementation (xt_core formats/strings.rs),                       *)
(*   - the subrecord / record / group codec (xt_esp esp.rs),               *)
(*   - extract_strings and apply_translations (xt_esp esp.rs),             *)
(*   - the undo history of the editor (xt_app history.rs).                 *)
(* Bytes are naturals 0..255, byte buffers are sequences of bytes, and     *)
(* every offset of the source (0-based) is kept 0-based: byte offset k of  *)
(* a buffer b is b[k + 1].                                                 *)
(***************************************************************************)
EXTENDS Integers, Sequences, FiniteSets, TLC

VARIABLES
    codBytes,   \* plugin codec: the byte buffer handed to parse_plugin
    codTree,    \* plugin codec: the result of parse_plugin, or NoResult
    codOut,     \* plugin codec: the result of serialize_blocks, or NoResult
    subList,    \* subrecord codec: the list handed to serialize_subrecords (packed)
    subBytes,   \* subrecord codec: digest of the serialize_subrecords output, or NoResult
    subParsed,  \* subrecord codec: the result of parse_subrecords (packed), or NoResult
    tblFile,    \* string-table codec: the StringsFile handed to a writer
    tblBytes,   \* string-table codec: the byte buffer handed to a reader
    tblWrite,   \* string-table codec: [kind, res] of the last write, or NoCall
    tblRead,    \* string-table codec: [kind, res] of the last read, or NoCall
    files,      \* file system: path -> None, or Some(bytes) of the file at that path
    calls,      \* the calls of extract_strings / apply_translations: name -> frame
    hist,       \* undo history: the EntryHistory [past, future, limit]
    histEntries,  \* undo history: the entries slice handed to undo and redo
    histLast,   \* undo history: [op, arg, ret] of the last call on the history
    histUndone, \* undo history: how many undo calls in a row returned true
    histRecorded, \* undo history: how many edits were recorded since the last clear
    prsStack,   \* parser loops: the frames of the running loops, the innermost last
    prsResult   \* parser loops: NoResult while parse_plugin runs, then Ok or the error

tblVars == <<tblFile, tblBytes, tblWrite, tblRead>>

codVars == <<codBytes, codTree, codOut, subList, subBytes, subParsed>>

mainVars == <<files, calls>>

histVars == <<hist, histEntries, histLast, histUndone, histRecorded>>

prsVars == <<prsStack, prsResult>>

vars == <<codVars, tblVars, mainVars, histVars, prsVars>>

\* what an action of one part leaves alone
notTbl == <<codVars, mainVars, histVars, prsVars>>

notCod == <<tblVars, mainVars, histVars, prsVars>>

notMain == <<codVars, tblVars, histVars, prsVars>>

notHist == <<codVars, tblVars, mainVars, prsVars>>

notPrs == <<codVars, tblVars, mainVars, histVars>>

(***************************************************************************)
(* Results.  Result<T, E> is a record; the error is a <<name, argument>>   *)
(* pair so that DuplicateId(id), MissingStringId(id) carry their payload.  *)
(***************************************************************************)
Ok(v) == [ok |-> TRUE, val |-> v, err |-> <<"none", 0>>]

Err(name, arg) == [ok |-> FALSE, val |-> <<>>, err |-> <<name, arg>>]

NoResult == Err("nocall", 0)

\* placeholders of a spec's unused inputs: no StringsFile, no byte buffer, no list
NoFile == <<[id |-> 0, text |-> <<>>]>>

NoBytes == <<>>

NoList == <<[sub_type |-> <<>>, data |-> [bytes |-> <<>>, pattern |-> 0]]>>

NoCall == [kind |-> "none", res |-> Err("nocall", 0)]

\* the variables of a codec while a specification does not use it
TablesIdle ==
    /\ tblFile = NoFile
    /\ tblBytes = NoBytes
    /\ tblWrite = NoCall
    /\ tblRead = NoCall

CodecIdle ==
    /\ codBytes = NoBytes
    /\ codTree = NoResult
    /\ codOut = NoResult
    /\ subList = NoList
    /\ subBytes = NoResult
    /\ subParsed = NoResult

HistoryIdle ==
    /\ hist = [past |-> <<>>, future |-> <<>>, limit |-> 0]
    /\ histEntries = <<>>
    /\ histLast = [op |-> "none", arg |-> <<>>, ret |-> FALSE]
    /\ histUndone = 0
    /\ histRecorded = 0

LoopsIdle ==
    /\ prsStack = <<>>
    /\ prsResult = NoResult

(***************************************************************************)
(* Little-endian integers.  The checker's integers end at 2^31 - 1: a u32   *)
(* of 2^31 or more is read as 2^31 - 1.  Such a value is only ever compared *)
(* with buffer lengths, which are far smaller; no id, form id or flag word  *)
(* of the inputs is that large.                                            *)
(***************************************************************************)
u16_to_le_bytes(n) == <<n % 256, (n \div 256) % 256>>

u32_to_le_bytes(n) ==
    <<n % 256, (n \div 256) % 256, (n \div 65536) % 256, (n \div 16777216) % 256>>

u32_from_le_bytes(b) ==
    IF b[4] >= 128 THEN 2147483647
    ELSE b[1] + 256 * b[2] + 65536 * b[3] + 16777216 * b[4]

u16_from_le_bytes(b) == b[1] + 256 * b[2]

\* bytes[from .. to) with 0-based offsets, as the slice bytes[from..to] of the source
Slice(bytes, from, to) == SubSeq(bytes, from + 1, to)

RECURSIVE Concat(_)
Concat(chunks) ==
    IF chunks = <<>> THEN <<>> ELSE Head(chunks) \o Concat(Tail(chunks))

(***************************************************************************)
(* std::str::from_utf8: the validity test of RFC 3629 on a byte sequence.  *)
(***************************************************************************)
IsCont(b) == b >= 128 /\ b <= 191

RECURSIVE IsUtf8(_)
IsUtf8(s) ==
    IF s = <<>> THEN TRUE
    ELSE LET b == s[1]
             n == Len(s)
         IN  IF b < 128 THEN IsUtf8(Tail(s))
             ELSE IF b >= 194 /\ b <= 223
                  THEN n >= 2 /\ IsCont(s[2]) /\ IsUtf8(SubSeq(s, 3, n))
             ELSE IF b >= 224 /\ b <= 239
                  THEN /\ n >= 3
                       /\ IsCont(s[2])
                       /\ IsCont(s[3])
                       /\ (b = 224 => s[2] >= 160)
                       /\ (b = 237 => s[2] <= 159)
                       /\ IsUtf8(SubSeq(s, 4, n))
             ELSE IF b >= 240 /\ b <= 244
                  THEN /\ n >= 4
                       /\ IsCont(s[2])
                       /\ IsCont(s[3])
                       /\ IsCont(s[4])
                       /\ (b = 240 => s[2] >= 144)
                       /\ (b = 244 => s[2] <= 143)
                       /\ IsUtf8(SubSeq(s, 5, n))
             ELSE FALSE

(***************************************************************************)
(* xt_esp/src/strings.rs                                                   *)
(* A StringsFile is the sequence of its entries [id, text]; a text is the  *)
(* sequence of its UTF-8 bytes.                                            *)
(***************************************************************************)
StringsEntry(id, text) == [id |-> id, text |-> text]

\* strings.rs read_u32: UnexpectedEof when the four bytes are not all there
read_u32(input, offset) ==
    IF offset + 4 > Len(input) THEN Err("UnexpectedEof", 0)
    ELSE Ok(u32_from_le_bytes(Slice(input, offset, offset + 4)))

\* entries.sort_by_key(|entry| entry.id): a stable sort
RECURSIVE InsertById(_, _)
InsertById(sorted, e) ==
    IF sorted = <<>> THEN <<e>>
    ELSE IF e.id < Head(sorted).id THEN <<e>> \o sorted
    ELSE <<Head(sorted)>> \o InsertById(Tail(sorted), e)

RECURSIVE sort_by_key(_)
sort_by_key(entries) ==
    IF entries = <<>> THEN <<>>
    ELSE InsertById(sort_by_key(SubSeq(entries, 1, Len(entries) - 1)),
                    entries[Len(entries)])

\* for window in entries.windows(2): the first adjacent pair with equal ids
DuplicateWindows(entries) ==
    {i \in 1..(Len(entries) - 1) : entries[i].id = entries[i + 1].id}

FirstOf(S) == CHOOSE i \in S : \A j \in S : i <= j

\* offset of chunk i in the data block: data_block.len() when entry i is appended
RECURSIVE ChunkOffset(_, _)
ChunkOffset(chunks, i) ==
    IF i <= 1 THEN 0 ELSE ChunkOffset(chunks, i - 1) + Len(chunks[i - 1])

\* header, directory and data block laid out as the writers do
TableLayout(entries, chunks) ==
    LET data_block == Concat(chunks)
        directory ==
            [i \in 1..Len(entries) |->
                u32_to_le_bytes(entries[i].id) \o u32_to_le_bytes(ChunkOffset(chunks, i))]
    IN  u32_to_le_bytes(Len(entries)) \o u32_to_le_bytes(Len(data_block))
            \o Concat(directory) \o data_block

write_strings_unterminated(file) ==
    LET entries == sort_by_key(file)
        dups == DuplicateWindows(entries)
    IN  IF dups # {} THEN Err("DuplicateId", entries[FirstOf(dups)].id)
        ELSE Ok(TableLayout(entries, [i \in 1..Len(entries) |-> entries[i].text]))

write_strings(file) ==
    LET entries == sort_by_key(file)
        dups == DuplicateWindows(entries)
    IN  IF dups # {} THEN Err("DuplicateId", entries[FirstOf(dups)].id)
        ELSE Ok(TableLayout(entries,
                    [i \in 1..Len(entries) |-> entries[i].text \o <<0>>]))

write_length_prefixed_unsorted(file) ==
    LET entries == file
        dups == DuplicateWindows(entries)
    IN  IF dups # {} THEN Err("DuplicateId", entries[FirstOf(dups)].id)
        ELSE Ok(TableLayout(entries,
                    [i \in 1..Len(entries) |->
                        u32_to_le_bytes(Len(entries[i].text) + 1)
                            \o entries[i].text \o <<0>>]))

write_length_prefixed_strings(file) ==
    LET entries == sort_by_key(file)
        dups == DuplicateWindows(entries)
    IN  IF dups # {} THEN Err("DuplicateId", entries[FirstOf(dups)].id)
        ELSE Ok(TableLayout(entries,
                    [i \in 1..Len(entries) |->
                        u32_to_le_bytes(Len(entries[i].text) + 1)
                            \o entries[i].text \o <<0>>]))

write_dlstrings(file) == write_length_prefixed_strings(file)

write_ilstrings(file) == write_length_prefixed_strings(file)

\* the largest count whose directory size count * 8 still fits a u32
MaxDirCount == 536870911

\* header of both readers: Ok([count, data_size, data_start, data_end]) or the error
read_table_header(input) ==
    IF Len(input) < 8 THEN Err("InvalidHeader", 0)
    ELSE LET count == read_u32(input, 0).val
             data_size == read_u32(input, 4).val
         IN  IF count > MaxDirCount THEN Err("InvalidHeader", 0)
             \* data_end > input.len(), evaluated without leaving the integer range
             ELSE IF \/ count > Len(input)
                     \/ data_size > Len(input)
                     \/ 8 + count * 8 + data_size > Len(input)
                  THEN Err("UnexpectedEof", 0)
             ELSE Ok([count |-> count, data_size |-> data_size,
                      data_start |-> 8 + count * 8,
                      data_end |-> 8 + count * 8 + data_size])

\* end of the null-terminated run: while end < data_end && input[end] != 0
RECURSIVE ScanToNull(_, _, _)
ScanToNull(input, end, data_end) ==
    IF end < data_end /\ input[end + 1] # 0
    THEN ScanToNull(input, end + 1, data_end)
    ELSE end

\* body of the for loop of read_strings for directory entry i (0-based)
read_strings_entry(input, h, i) ==
    LET base == 8 + i * 8
        id == read_u32(input, base).val
        offset == read_u32(input, base + 4).val
    IN  IF offset >= h.data_size THEN Err("InvalidOffset", 0)
        ELSE LET start == h.data_start + offset
                 end == ScanToNull(input, start, h.data_end)
             IN  IF end >= h.data_end THEN Err("MissingTerminator", 0)
                 ELSE IF ~IsUtf8(Slice(input, start, end)) THEN Err("Utf8", 0)
                 ELSE Ok(StringsEntry(id, Slice(input, start, end)))

read_length_prefixed_entry_unchecked(input, h, i) ==
    LET base == 8 + i * 8
        id == read_u32(input, base).val
        offset == read_u32(input, base + 4).val
    IN  IF offset >= h.data_size THEN Err("InvalidOffset", 0)
        ELSE LET len_offset == h.data_start + offset
                 lenr == read_u32(input, len_offset)
                 len == lenr.val
                 text_start == len_offset + 4
             IN  IF ~lenr.ok THEN lenr
                 ELSE IF len = 0 THEN Err("InvalidLength", 0)
                 ELSE IF len > h.data_end \/ text_start + len > h.data_end
                      THEN Err("UnexpectedEof", 0)
                 ELSE LET slice == Slice(input, text_start, text_start + len)
                      IN  IF ~IsUtf8(SubSeq(slice, 1, Len(slice) - 1))
                          THEN Err("Utf8", 0)
                          ELSE Ok(StringsEntry(id, SubSeq(slice, 1, Len(slice) - 1)))

\* body of the for loop of read_length_prefixed_strings for directory entry i
read_length_prefixed_entry(input, h, i) ==
    LET base == 8 + i * 8
        id == read_u32(input, base).val
        offset == read_u32(input, base + 4).val
    IN  IF offset >= h.data_size THEN Err("InvalidOffset", 0)
        ELSE LET len_offset == h.data_start + offset
                 lenr == read_u32(input, len_offset)
                 len == lenr.val
                 text_start == len_offset + 4
             IN  IF ~lenr.ok THEN lenr
                 ELSE IF len = 0 THEN Err("InvalidLength", 0)
                 \* text_end > data_end, evaluated without leaving the integer range
                 ELSE IF len > h.data_end \/ text_start + len > h.data_end
                      THEN Err("UnexpectedEof", 0)
                 ELSE LET slice == Slice(input, text_start, text_start + len)
                      IN  IF slice[Len(slice)] # 0 THEN Err("MissingTerminator", 0)
                          ELSE IF ~IsUtf8(SubSeq(slice, 1, Len(slice) - 1))
                               THEN Err("Utf8", 0)
                          ELSE Ok(StringsEntry(id, SubSeq(slice, 1, Len(slice) - 1)))

\* the for loop: entries are pushed in directory order, the first error returns
RECURSIVE ReadEntries(_, _, _, _, _)
ReadEntries(input, h, i, prefixed, entries) ==
    IF i >= h.count THEN Ok(entries)
    ELSE LET e == IF prefixed THEN read_length_prefixed_entry(input, h, i)
                  ELSE read_strings_entry(input, h, i)
         IN  IF ~e.ok THEN e
             ELSE ReadEntries(input, h, i + 1, prefixed, Append(entries, e.val))

read_strings(input) ==
    LET h == read_table_header(input)
    IN  IF ~h.ok THEN h ELSE ReadEntries(input, h.val, 0, FALSE, <<>>)

read_length_prefixed_strings(input) ==
    LET h == read_table_header(input)
    IN  IF ~h.ok THEN h ELSE ReadEntries(input, h.val, 0, TRUE, <<>>)

read_dlstrings(input) == read_length_prefixed_strings(input)

read_ilstrings(input) == read_length_prefixed_strings(input)

StringsKinds == {"strings", "dlstrings", "ilstrings"}

write_table(kind, file) ==
    CASE kind = "strings" -> write_strings(file)
      [] kind = "dlstrings" -> write_dlstrings(file)
      [] kind = "ilstrings" -> write_ilstrings(file)

read_table(kind, input) ==
    CASE kind = "strings" -> read_strings(input)
      [] kind = "dlstrings" -> read_dlstrings(input)
      [] kind = "ilstrings" -> read_ilstrings(input)

(***************************************************************************)
(* xt_esp/src/esp.rs: byte cursor primitives                               *)
(***************************************************************************)
RECORD_HEADER_SIZE == 24

GROUP_HEADER_SIZE == 24

\* RECORD_COMPRESSED = 0x0004_0000
RECORD_COMPRESSED == 262144

\* u16::MAX
U16_MAX == 65535

TagGRUP == <<71, 82, 85, 80>>

TagXXXX == <<88, 88, 88, 88>>

TagFULL == <<70, 85, 76, 76>>

TagDESC == <<68, 69, 83, 67>>

\* (flags & RECORD_COMPRESSED) != 0
HasCompressedFlag(flags) == (flags \div RECORD_COMPRESSED) % 2 = 1

read_tag(bytes, offset) ==
    IF offset + 4 > Len(bytes) THEN Err("InvalidHeader", 0)
    ELSE Ok(Slice(bytes, offset, offset + 4))

read_u16(bytes, offset) ==
    IF offset + 2 > Len(bytes) THEN Err("InvalidHeader", 0)
    ELSE Ok(u16_from_le_bytes(Slice(bytes, offset, offset + 2)))

esp_read_u32(bytes, offset) ==
    IF offset + 4 > Len(bytes) THEN Err("InvalidHeader", 0)
    ELSE Ok(u32_from_le_bytes(Slice(bytes, offset, offset + 4)))

(***************************************************************************)
(* flate2 (zlib).  The library is outside the repository; the model uses   *)
(* a container with the properties the codec relies on: a two-byte header  *)
(* (0x78 and a level byte), the stream's length, the data and a checksum.  *)
(* The decoder accepts any level byte the format allows, stops at the end  *)
(* of the stream (bytes after it are not read) and fails on a damaged      *)
(* stream; the encoder always writes the default level byte.               *)
(***************************************************************************)
RECURSIVE ByteSum(_)
ByteSum(data) == IF data = <<>> THEN 1 ELSE (Head(data) + ByteSum(Tail(data))) % 251

ZlibLevels == {1, 94, 156, 218}

ZlibEncode(data) ==
    <<120, 156>> \o u32_to_le_bytes(Len(data)) \o data \o <<ByteSum(data)>>

ZlibDecode(stream) ==
    IF Len(stream) < 7 \/ stream[1] # 120 \/ stream[2] \notin ZlibLevels
    THEN Err("Io", 0)
    ELSE LET n == u32_from_le_bytes(SubSeq(stream, 3, 6))
         IN  IF n > Len(stream) \/ Len(stream) < 7 + n THEN Err("Io", 0)
             ELSE LET data == SubSeq(stream, 7, 6 + n)
                  IN  IF stream[7 + n] # ByteSum(data) THEN Err("Io", 0)
                      ELSE Ok(data)

decompress_record_data(data) ==
    IF Len(data) < 4 THEN Err("InvalidRecord", 0)
    ELSE ZlibDecode(SubSeq(data, 5, Len(data)))

compress_record_data(data) == u32_to_le_bytes(Len(data)) \o ZlibEncode(data)

(***************************************************************************)
(* Subrecord codec                                                         *)
(***************************************************************************)
Subrecord(sub_type, data) == [sub_type |-> sub_type, data |-> data]

\* Option<u32>::None of extended_len
NoExtendedLen == -1

\* the while loop of parse_subrecords from `cursor` on
RECURSIVE ParseSubrecordsFrom(_, _, _, _)
ParseSubrecordsFrom(data, cursor, extended_len, subrecords) ==
    IF ~(cursor + 6 <= Len(data)) THEN Ok(subrecords)
    ELSE LET sub_type == read_tag(data, cursor).val
             len == read_u16(data, cursor + 4).val
             payload_start == cursor + 6
         IN  IF sub_type = TagXXXX
             THEN IF len # 4 \/ payload_start + 4 > Len(data)
                  THEN Err("InvalidSubrecord", 0)
                  ELSE ParseSubrecordsFrom(data, payload_start + len,
                            esp_read_u32(data, payload_start).val, subrecords)
             ELSE LET actual_len ==
                          IF extended_len # NoExtendedLen THEN extended_len ELSE len
                      payload_end == payload_start + actual_len
                  IN  \* payload_end > data.len(), without leaving the integer range
                      IF actual_len > Len(data) \/ payload_end > Len(data)
                      THEN Err("InvalidSubrecord", 0)
                      ELSE ParseSubrecordsFrom(data, payload_end, NoExtendedLen,
                                Append(subrecords,
                                    Subrecord(sub_type, Slice(data, payload_start, payload_end))))

\* a loop that stops at a bad marker and cuts a payload at the end of the buffer
\* instead of failing
RECURSIVE ParseSubrecordsLenient(_, _, _, _)
ParseSubrecordsLenient(data, cursor, extended_len, subrecords) ==
    IF ~(cursor + 6 <= Len(data)) THEN Ok(subrecords)
    ELSE LET sub_type == read_tag(data, cursor).val
             len == read_u16(data, cursor + 4).val
             payload_start == cursor + 6
         IN  IF sub_type = TagXXXX
             THEN IF len # 4 \/ payload_start + 4 > Len(data)
                  THEN Ok(subrecords)
                  ELSE ParseSubrecordsLenient(data, payload_start + len,
                            esp_read_u32(data, payload_start).val, subrecords)
             ELSE LET actual_len ==
                          IF extended_len # NoExtendedLen THEN extended_len ELSE len
                      payload_end ==
                          IF actual_len > Len(data) \/ payload_start + actual_len > Len(data)
                          THEN Len(data) ELSE payload_start + actual_len
                  IN  ParseSubrecordsLenient(data, payload_end, NoExtendedLen,
                            Append(subrecords,
                                Subrecord(sub_type, Slice(data, payload_start, payload_end))))

\* a loop that keeps the pending length after it was used
RECURSIVE ParseSubrecordsSticky(_, _, _, _)
ParseSubrecordsSticky(data, cursor, extended_len, subrecords) ==
    IF ~(cursor + 6 <= Len(data)) THEN Ok(subrecords)
    ELSE LET sub_type == read_tag(data, cursor).val
             len == read_u16(data, cursor + 4).val
             payload_start == cursor + 6
         IN  IF sub_type = TagXXXX
             THEN IF len # 4 \/ payload_start + 4 > Len(data)
                  THEN Err("InvalidSubrecord", 0)
                  ELSE ParseSubrecordsSticky(data, payload_start + len,
                            esp_read_u32(data, payload_start).val, subrecords)
             ELSE LET actual_len ==
                          IF extended_len # NoExtendedLen THEN extended_len ELSE len
                      payload_end == payload_start + actual_len
                  IN  IF actual_len > Len(data) \/ payload_end > Len(data)
                      THEN Err("InvalidSubrecord", 0)
                      ELSE ParseSubrecordsSticky(data, payload_end, extended_len,
                                Append(subrecords,
                                    Subrecord(sub_type, Slice(data, payload_start, payload_end))))

parse_subrecords_lenient(data) == ParseSubrecordsLenient(data, 0, NoExtendedLen, <<>>)

parse_subrecords_sticky(data) == ParseSubrecordsSticky(data, 0, NoExtendedLen, <<>>)

parse_subrecords(data) == ParseSubrecordsFrom(data, 0, NoExtendedLen, <<>>)

serialize_subrecord_short(subrecord) ==
    subrecord.sub_type \o u16_to_le_bytes(Len(subrecord.data) % 65536) \o subrecord.data

\* body of the for loop of serialize_subrecords
serialize_subrecord(subrecord) ==
    LET len == Len(subrecord.data)
    IN  IF len > U16_MAX
        THEN TagXXXX \o u16_to_le_bytes(4) \o u32_to_le_bytes(len)
                \o subrecord.sub_type \o u16_to_le_bytes(0) \o subrecord.data
        ELSE subrecord.sub_type \o u16_to_le_bytes(len) \o subrecord.data

serialize_subrecords(subrecords) ==
    Concat([i \in 1..Len(subrecords) |-> serialize_subrecord(subrecords[i])])

(***************************************************************************)
(* Record and group codec                                                  *)
(***************************************************************************)
RecordHeader(record_type, flags, form_id, stamp, version_control, version, unknown) ==
    [record_type |-> record_type, flags |-> flags, form_id |-> form_id,
     stamp |-> stamp, version_control |-> version_control, version |-> version,
     unknown |-> unknown]

Record(header, subrecords, compressed) ==
    [block |-> "Record", header |-> header, subrecords |-> subrecords,
     compressed |-> compressed]

Group(label, group_type, stamp, unknown, children) ==
    [block |-> "Group", label |-> label, group_type |-> group_type, stamp |-> stamp,
     unknown |-> unknown, children |-> children]

\* Ok(<<record, next>>) or the error
parse_record(bytes, offset) ==
    IF offset + RECORD_HEADER_SIZE > Len(bytes) THEN Err("InvalidRecord", 0)
    ELSE LET record_type == read_tag(bytes, offset).val
             data_size == esp_read_u32(bytes, offset + 4).val
             flags == esp_read_u32(bytes, offset + 8).val
             form_id == esp_read_u32(bytes, offset + 12).val
             stamp == read_u16(bytes, offset + 16).val
             version_control == read_u16(bytes, offset + 18).val
             version == read_u16(bytes, offset + 20).val
             unknown == read_u16(bytes, offset + 22).val
             data_start == offset + RECORD_HEADER_SIZE
             data_end == data_start + data_size
         IN  \* data_end > bytes.len(), without leaving the integer range
             IF data_size > Len(bytes) \/ data_end > Len(bytes)
             THEN Err("InvalidRecord", 0)
             ELSE LET stored_data == Slice(bytes, data_start, data_end)
                      compressed == HasCompressedFlag(flags)
                      data == IF compressed THEN decompress_record_data(stored_data)
                              ELSE Ok(stored_data)
                      subrecords == parse_subrecords(data.val)
                  IN  IF ~data.ok THEN data
                      ELSE IF ~subrecords.ok THEN subrecords
                      ELSE Ok(<<Record(RecordHeader(record_type, flags, form_id, stamp,
                                            version_control, version, unknown),
                                       subrecords.val, compressed),
                                data_end>>)

\* parse_group and the while loop over its children (ParseChildren), which recurses
\* into parse_group for a child tagged GRUP
RECURSIVE parse_group(_, _)
RECURSIVE ParseChildren(_, _, _, _)
ParseChildren(bytes, cursor, end, children) ==
    IF ~(cursor < end) THEN Ok(children)
    ELSE LET tag == read_tag(bytes, cursor)
             child == IF tag.val = TagGRUP THEN parse_group(bytes, cursor)
                      ELSE parse_record(bytes, cursor)
         IN  IF ~tag.ok THEN tag
             ELSE IF ~child.ok THEN child
             ELSE ParseChildren(bytes, child.val[2], end, Append(children, child.val[1]))

parse_group(bytes, offset) ==
    IF offset + GROUP_HEADER_SIZE > Len(bytes) THEN Err("InvalidGroup", 0)
    ELSE LET size == esp_read_u32(bytes, offset + 4).val
         IN  IF size < GROUP_HEADER_SIZE \/ size > Len(bytes) \/ offset + size > Len(bytes)
             THEN Err("InvalidGroup", 0)
             ELSE LET label == read_tag(bytes, offset + 8).val
                      group_type == esp_read_u32(bytes, offset + 12).val
                      stamp == esp_read_u32(bytes, offset + 16).val
                      unknown == esp_read_u32(bytes, offset + 20).val
                      end == offset + size
                      children == ParseChildren(bytes, offset + GROUP_HEADER_SIZE, end, <<>>)
                  IN  IF ~children.ok THEN children
                      ELSE Ok(<<Group(label, group_type, stamp, unknown, children.val), end>>)

\* the while loop of parse_plugin, which is the loop of parse_group with end = len
parse_plugin(bytes) == ParseChildren(bytes, 0, Len(bytes), <<>>)

serialize_record_uncompressed(record) ==
    LET data == serialize_subrecords(record.subrecords)
    IN  record.header.record_type
            \o u32_to_le_bytes(Len(data))
            \o u32_to_le_bytes(record.header.flags)
            \o u32_to_le_bytes(record.header.form_id)
            \o u16_to_le_bytes(record.header.stamp)
            \o u16_to_le_bytes(record.header.version_control)
            \o u16_to_le_bytes(record.header.version)
            \o u16_to_le_bytes(record.header.unknown)
            \o data

serialize_record(record) ==
    LET stream == serialize_subrecords(record.subrecords)
        data == IF record.compressed THEN compress_record_data(stream) ELSE stream
    IN  record.header.record_type
            \o u32_to_le_bytes(Len(data))
            \o u32_to_le_bytes(record.header.flags)
            \o u32_to_le_bytes(record.header.form_id)
            \o u16_to_le_bytes(record.header.stamp)
            \o u16_to_le_bytes(record.header.version_control)
            \o u16_to_le_bytes(record.header.version)
            \o u16_to_le_bytes(record.header.unknown)
            \o data

RECURSIVE serialize_group(_)
\* a variant whose size field counts the children without the header
serialize_group_body_size(group) ==
    LET data == Concat([i \in 1..Len(group.children) |->
                    IF group.children[i].block = "Record"
                    THEN serialize_record(group.children[i])
                    ELSE serialize_group(group.children[i])])
    IN  TagGRUP
            \o u32_to_le_bytes(Len(data))
            \o group.label
            \o u32_to_le_bytes(group.group_type)
            \o u32_to_le_bytes(group.stamp)
            \o u32_to_le_bytes(group.unknown)
            \o data


serialize_group(group) ==
    LET data == Concat([i \in 1..Len(group.children) |->
                    IF group.children[i].block = "Record"
                    THEN serialize_record(group.children[i])
                    ELSE serialize_group(group.children[i])])
    IN  TagGRUP
            \o u32_to_le_bytes(GROUP_HEADER_SIZE + Len(data))
            \o group.label
            \o u32_to_le_bytes(group.group_type)
            \o u32_to_le_bytes(group.stamp)
            \o u32_to_le_bytes(group.unknown)
            \o data

serialize_blocks(blocks) ==
    Concat([i \in 1..Len(blocks) |->
        IF blocks[i].block = "Record" THEN serialize_record(blocks[i])
        ELSE serialize_group(blocks[i])])

(***************************************************************************)
(* String keys, classification and the two per-record loops               *)
(***************************************************************************)
None == [some |-> FALSE, val |-> <<>>]

Some(v) == [some |-> TRUE, val |-> v]

\* tag.iter().map(|b| *b as char): each byte becomes the character of that code
tag_to_string(tag) == [i \in 1..Len(tag) |-> tag[i]]

\* one digit of {:X}: '0'..'9', 'A'..'F'
HexDigit(d) == IF d < 10 THEN 48 + d ELSE 55 + d

\* {:08X}
Hex8(n) == [i \in 1..8 |-> HexDigit((n \div (16 ^ (8 - i))) % 16)]

\* {} of a usize
RECURSIVE Decimal(_)
Decimal(n) == IF n < 10 THEN <<48 + n>> ELSE Decimal(n \div 10) \o <<48 + (n % 10)>>

\* format!("{}:{:08X}:{}:{}", ..): a string is the sequence of its character codes
format_key(record_type, form_id, sub_type, index) ==
    tag_to_string(record_type) \o <<58>> \o Hex8(form_id) \o <<58>>
        \o tag_to_string(sub_type) \o <<58>> \o Decimal(index)

Inline == [storage |-> "Inline", kind |-> "none", id |-> 0]

Localized(kind, id) == [storage |-> "Localized", kind |-> kind, id |-> id]

ExtractedString(key, record_type, subrecord_type, form_id, index, text, storage) ==
    [key |-> key, record_type |-> record_type, subrecord_type |-> subrecord_type,
     form_id |-> form_id, index |-> index, text |-> text, storage |-> storage]

\* HashMap<u32, String> collected from the entries: a later entry replaces an earlier
\* one of the same id
build_string_index(file) ==
    [id \in {file[i].id : i \in 1..Len(file)} |->
        file[CHOOSE i \in 1..Len(file) :
                /\ file[i].id = id
                /\ \A j \in (i + 1)..Len(file) : file[j].id # id].text]

\* StringsMap::new: an empty map for a table that was not loaded
StringsMap_new(bundle) ==
    [k \in StringsKinds |->
        IF bundle[k].some THEN build_string_index(bundle[k].val) ELSE <<>>]

\* a lookup that tries the tables in the opposite order
lookup_reversed(strings_map, id) ==
    IF id \in DOMAIN strings_map["ilstrings"]
    THEN Some([kind |-> "ilstrings", text |-> strings_map["ilstrings"][id]])
    ELSE IF id \in DOMAIN strings_map["dlstrings"]
    THEN Some([kind |-> "dlstrings", text |-> strings_map["dlstrings"][id]])
    ELSE IF id \in DOMAIN strings_map["strings"]
    THEN Some([kind |-> "strings", text |-> strings_map["strings"][id]])
    ELSE None

\* StringsMap::lookup
lookup(strings_map, id) ==
    IF id \in DOMAIN strings_map["strings"]
    THEN Some([kind |-> "strings", text |-> strings_map["strings"][id]])
    ELSE IF id \in DOMAIN strings_map["dlstrings"]
    THEN Some([kind |-> "dlstrings", text |-> strings_map["dlstrings"][id]])
    ELSE IF id \in DOMAIN strings_map["ilstrings"]
    THEN Some([kind |-> "ilstrings", text |-> strings_map["ilstrings"][id]])
    ELSE None

is_string_subrecord(tag) == tag = TagFULL \/ tag = TagDESC

\* char::is_control at byte i of a UTF-8 text: C0 controls, DEL, and the C1 controls
\* U+0080..U+009F (second byte after the lead byte 0xC2)
IsControlAt(text, i) ==
    \/ text[i] < 32
    \/ text[i] = 127
    \/ (text[i] >= 128 /\ text[i] <= 159 /\ i > 1 /\ text[i - 1] = 194)

\* char::is_alphanumeric || char::is_alphabetic at byte i: exact for ASCII; a
\* character from U+00C0 on (lead byte 0xC3 or more) is taken as alphabetic
IsAlphanumericAt(text, i) ==
    \/ (text[i] >= 48 /\ text[i] <= 57)
    \/ (text[i] >= 65 /\ text[i] <= 90)
    \/ (text[i] >= 97 /\ text[i] <= 122)
    \/ text[i] >= 195

looks_like_text(text) ==
    /\ \A i \in 1..Len(text) : IsControlAt(text, i) => text[i] \in {10, 9}
    /\ \E i \in 1..Len(text) : IsAlphanumericAt(text, i)

\* Some([text, storage]) or None
decode_subrecord_string(data, strings_map) ==
    LET hit == IF Len(data) = 4 THEN lookup(strings_map, u32_from_le_bytes(data))
               ELSE None
        nulls == {i \in 1..Len(data) : data[i] = 0}
        slice == IF nulls # {} THEN SubSeq(data, 1, FirstOf(nulls) - 1) ELSE data
    IN  IF hit.some
        THEN Some([text |-> hit.val.text,
                   storage |-> Localized(hit.val.kind, u32_from_le_bytes(data))])
        ELSE IF slice = <<>> THEN None
        ELSE IF ~IsUtf8(slice) THEN None
        ELSE IF ~looks_like_text(slice) THEN None
        ELSE Some([text |-> slice, storage |-> Inline])

\* an encoder that never appends the terminator
encode_string_unterminated(text, null_terminated) == text

encode_string(text, null_terminated) ==
    IF null_terminated THEN text \o <<0>> ELSE text

\* the for loop of collect_strings from subrecord i on, `index` being the counter
RECURSIVE CollectFrom(_, _, _, _, _)
CollectFrom(record, strings_map, i, index, results) ==
    IF i > Len(record.subrecords) THEN results
    ELSE LET subrecord == record.subrecords[i]
             decoded == decode_subrecord_string(subrecord.data, strings_map)
         IN  IF ~is_string_subrecord(subrecord.sub_type)
             THEN CollectFrom(record, strings_map, i + 1, index, results)
             ELSE IF decoded.some
             THEN CollectFrom(record, strings_map, i + 1, index + 1,
                    Append(results,
                        ExtractedString(
                            format_key(record.header.record_type, record.header.form_id,
                                       subrecord.sub_type, index),
                            record.header.record_type, subrecord.sub_type,
                            record.header.form_id, index,
                            decoded.val.text, decoded.val.storage)))
             ELSE CollectFrom(record, strings_map, i + 1, index, results)

\* a loop whose counter also counts the FULL and DESC subrecords it skips
RECURSIVE CollectFromByPosition(_, _, _, _, _)
CollectFromByPosition(record, strings_map, i, index, results) ==
    IF i > Len(record.subrecords) THEN results
    ELSE LET subrecord == record.subrecords[i]
             decoded == decode_subrecord_string(subrecord.data, strings_map)
         IN  IF ~is_string_subrecord(subrecord.sub_type)
             THEN CollectFromByPosition(record, strings_map, i + 1, index, results)
             ELSE IF decoded.some
             THEN CollectFromByPosition(record, strings_map, i + 1, index + 1,
                    Append(results,
                        ExtractedString(
                            format_key(record.header.record_type, record.header.form_id,
                                       subrecord.sub_type, index),
                            record.header.record_type, subrecord.sub_type,
                            record.header.form_id, index,
                            decoded.val.text, decoded.val.storage)))
             ELSE CollectFromByPosition(record, strings_map, i + 1, index + 1, results)

collect_strings_by_position(record, strings_map, results) ==
    CollectFromByPosition(record, strings_map, 1, 0, results)

collect_strings(record, strings_map, results) ==
    CollectFrom(record, strings_map, 1, 0, results)

\* HashMap<String, ExtractedString> collected from the translations: a later entry
\* replaces an earlier one of the same key
TranslationMap(translations) ==
    [k \in {translations[i].key : i \in 1..Len(translations)} |->
        translations[CHOOSE i \in 1..Len(translations) :
                        /\ translations[i].key = k
                        /\ \A j \in (i + 1)..Len(translations) : translations[j].key # k]]

\* HashMap::remove
MapRemove(map, k) == [x \in (DOMAIN map) \ {k} |-> map[x]]

\* a variant that creates the table or the entry it does not find
update_strings_bundle_inserting(bundle, kind, id, text) ==
    LET file == IF bundle[kind].some THEN bundle[kind].val ELSE <<>>
        hits == {i \in 1..Len(file) : file[i].id = id}
    IN  Ok([bundle EXCEPT ![kind] =
                Some(IF hits = {} THEN Append(file, [id |-> id, text |-> text])
                     ELSE [file EXCEPT ![FirstOf(hits)].text = text])])

update_strings_bundle(bundle, kind, id, text) ==
    IF ~bundle[kind].some THEN Err("MissingStringsFile", kind)
    ELSE LET file == bundle[kind].val
             hits == {i \in 1..Len(file) : file[i].id = id}
         IN  IF hits = {} THEN Err("MissingStringId", id)
             ELSE Ok([bundle EXCEPT
                        ![kind] = Some([file EXCEPT ![FirstOf(hits)].text = text])])

\* the for loop of apply_to_record from subrecord i on:
\* Ok([record, bundle, translations]) or the error of update_strings_bundle
RECURSIVE ApplyFrom(_, _, _, _, _)
ApplyFrom(record, bundle, translations, i, index) ==
    IF i > Len(record.subrecords)
    THEN Ok([record |-> record, bundle |-> bundle, translations |-> translations])
    ELSE LET subrecord == record.subrecords[i]
             key == format_key(record.header.record_type, record.header.form_id,
                               subrecord.sub_type, index)
         IN  IF ~is_string_subrecord(subrecord.sub_type)
             THEN ApplyFrom(record, bundle, translations, i + 1, index)
             ELSE IF key \notin DOMAIN translations
             THEN ApplyFrom(record, bundle, translations, i + 1, index + 1)
             ELSE LET updated == translations[key]
                      rest == MapRemove(translations, key)
                  IN  IF updated.storage.storage = "Inline"
                      THEN LET null_terminated ==
                                   /\ subrecord.data # <<>>
                                   /\ subrecord.data[Len(subrecord.data)] = 0
                               edited ==
                                   [record EXCEPT !.subrecords[i].data =
                                       encode_string(updated.text, null_terminated)]
                           IN  ApplyFrom(edited, bundle, rest, i + 1, index + 1)
                      ELSE LET upd == update_strings_bundle(bundle, updated.storage.kind,
                                            updated.storage.id, updated.text)
                           IN  IF ~upd.ok THEN upd
                               ELSE ApplyFrom(record, upd.val, rest, i + 1, index + 1)

\* a variant that rebuilds the record from its FULL and DESC subrecords only
apply_to_record_strings_only(record, bundle, translations) ==
    LET applied == ApplyFrom(record, bundle, translations, 1, 0)
    IN  IF ~applied.ok THEN applied
        ELSE Ok([applied.val EXCEPT !.record.subrecords =
                    SelectSeq(@, LAMBDA subrecord : is_string_subrecord(subrecord.sub_type))])

apply_to_record(record, bundle, translations) ==
    ApplyFrom(record, bundle, translations, 1, 0)

(***************************************************************************)
(* The file system and the string-table bundle.  A plugin is read at path  *)
(* "in"; apply_translations writes it to "out" (an output directory other  *)
(* than the input's); the three tables of the plugin's base name and       *)
(* language live at the paths "strings", "dlstrings", "ilstrings", which   *)
(* are the same for "in" and "out" since both have the same file name.     *)
(***************************************************************************)
Paths == {"in", "out"} \cup StringsKinds

\* the order in which load_strings_bundle and write_strings_bundle visit the tables
KindOrder == <<"strings", "dlstrings", "ilstrings">>

NoFiles == [p \in Paths |-> None]

EmptyBundle == [k \in StringsKinds |-> None]

\* candidate.exists(): the file at the table's path, if any
resolve_strings_path(fs, kind) == fs[kind]

\* .map_err(|_| EspError::InvalidHeader)? and Ok(Some(file)) of load_strings_file
SomeFileOrInvalidHeader(file) ==
    IF file.ok THEN Ok(Some(file.val)) ELSE Err("InvalidHeader", 0)

\* Ok(None), Ok(Some(file)), or InvalidHeader for any reader error
load_strings_file(path, kind) ==
    IF ~path.some THEN Ok(None)
    ELSE SomeFileOrInvalidHeader(read_table(kind, path.val))

\* the three `?` of load_strings_bundle, in order, and the bundle
BundleOf(strings, dlstrings, ilstrings) ==
    IF ~strings.ok THEN strings
    ELSE IF ~dlstrings.ok THEN dlstrings
    ELSE IF ~ilstrings.ok THEN ilstrings
    ELSE Ok([strings |-> strings.val, dlstrings |-> dlstrings.val,
             ilstrings |-> ilstrings.val])

load_strings_bundle(fs) ==
    BundleOf(load_strings_file(resolve_strings_path(fs, "strings"), "strings"),
             load_strings_file(resolve_strings_path(fs, "dlstrings"), "dlstrings"),
             load_strings_file(resolve_strings_path(fs, "ilstrings"), "ilstrings"))

\* the `?` after load_strings_bundle and after parse_plugin, in order
BundleAndBlocks(bundle, blocks) ==
    IF ~bundle.ok THEN bundle
    ELSE IF ~blocks.ok THEN blocks
    ELSE Ok([bundle |-> bundle.val, blocks |-> blocks.val])

\* the first three statements of extract_strings and of apply_translations:
\* std::fs::read(path)?, load_strings_bundle(..)?, parse_plugin(&bytes)?
OpenPlugin(fs, path) ==
    IF ~fs[path].some THEN Err("Io", 0)
    ELSE BundleAndBlocks(load_strings_bundle(fs), parse_plugin(fs[path].val))

\* the three `if let Some(file)` blocks of write_strings_bundle from the i-th on:
\* [fs, res], the file system after the writes that happened and the result
RECURSIVE WriteBundleFrom(_, _, _)
WriteBundleFrom(bundle, fs, i) ==
    IF i > Len(KindOrder) THEN [fs |-> fs, res |-> Ok(<<>>)]
    ELSE LET kind == KindOrder[i]
             bytes == write_table(kind, bundle[kind].val)
         IN  IF ~bundle[kind].some THEN WriteBundleFrom(bundle, fs, i + 1)
             ELSE IF ~bytes.ok THEN [fs |-> fs, res |-> Err("InvalidHeader", 0)]
             ELSE WriteBundleFrom(bundle, [fs EXCEPT ![kind] = Some(bytes.val)], i + 1)

\* a variant that writes only the tables whose entries are not those on disk
write_strings_bundle_touched_only(bundle, fs) ==
    WriteBundleFrom(
        [kind \in StringsKinds |->
            IF bundle[kind].some /\ fs[kind].some
                    /\ read_table(kind, fs[kind].val) = Ok(bundle[kind].val)
            THEN None ELSE bundle[kind]],
        fs, 1)


write_strings_bundle(bundle, fs) == WriteBundleFrom(bundle, fs, 1)

(***************************************************************************)
(* Call frames.  A frame holds the locals of one call of extract_strings   *)
(* or apply_translations: the parsed blocks, the stack of the walk (a      *)
(* reference to a block is the path of child indices leading to it), the   *)
(* results, the string index, the bundle and the translation map; `seen`   *)
(* and `edits` remember what the call was given, `visited` the references  *)
(* of the records the loop has handled so far, in order.                   *)
(***************************************************************************)
Calls == {"first", "second", "apply", "refresh"}

IdleCall ==
    [op |-> "none", pc |-> "idle", seen |-> NoFiles, edits |-> <<>>,
     blocks |-> <<>>, stack |-> <<>>, results |-> <<>>,
     strings_map |-> StringsMap_new(EmptyBundle), bundle |-> EmptyBundle,
     translations |-> <<>>, result |-> NoResult, visited |-> <<>>]

\* the variables of the extract / apply part while a specification does not use it
MainIdle ==
    /\ files = NoFiles
    /\ calls = [c \in Calls |-> IdleCall]

RECURSIVE BlockAt(_, _)
BlockAt(blocks, path) ==
    IF Len(path) = 1 THEN blocks[path[1]]
    ELSE BlockAt(blocks[path[1]].children, Tail(path))

RECURSIVE ReplaceAt(_, _, _)
ReplaceAt(blocks, path, block) ==
    IF Len(path) = 1 THEN [blocks EXCEPT ![path[1]] = block]
    ELSE [blocks EXCEPT ![path[1]].children =
            ReplaceAt(blocks[path[1]].children, Tail(path), block)]

\* stack.extend(..) of the n blocks below `path`, in order
ChildRefs(path, n) == [i \in 1..n |-> Append(path, i)]

(***************************************************************************)
(* Inputs of the string-table codec.                                       *)
(***************************************************************************)
MaxEntries == 2

MaxId == 2

MaxRawEntries == 2

SeqsUpTo(S, n) == UNION {[1..k -> S] : k \in 0..n}

\* "", "Hi", "A\0B" (a String may hold U+0000) and U+00E9
TableTexts == {<<>>, <<72, 105>>, <<65, 0, 66>>, <<195, 169>>}

\* small ids, and one id whose four little-endian bytes all differ
TableIds == (1..MaxId) \cup {67305985}

TableFiles == SeqsUpTo([id : TableIds, text : TableTexts], MaxEntries)

\* a hand-built length-prefixed data entry: "H\0", "H!" (no terminator), an invalid
\* UTF-8 byte with terminator; its declared length is the run's length or 0; its
\* directory offset is its own offset or the (invalid) data-block size
RawBodies == {<<72, 0>>, <<72, 33>>, <<255, 0>>}

RawEntries == [body : RawBodies, zeroLen : BOOLEAN, badOffset : BOOLEAN]

RawChunk(e) == u32_to_le_bytes(IF e.zeroLen THEN 0 ELSE Len(e.body)) \o e.body

\* the table bytes for raw entries es, the declared data size cut short by `cut`
RawTable(es, cut) ==
    LET chunks == [i \in 1..Len(es) |-> RawChunk(es[i])]
        data_block == Concat(chunks)
        data_size == IF Len(data_block) >= cut THEN Len(data_block) - cut ELSE 0
        directory ==
            [i \in 1..Len(es) |->
                u32_to_le_bytes(i) \o
                u32_to_le_bytes(IF es[i].badOffset THEN data_size
                                ELSE ChunkOffset(chunks, i))]
    IN  u32_to_le_bytes(Len(es)) \o u32_to_le_bytes(data_size)
            \o Concat(directory) \o data_block

RawTables == {RawTable(es, cut) : es \in SeqsUpTo(RawEntries, MaxRawEntries), cut \in {0, 1}}

(***************************************************************************)
(* SpecTables: the string-table codec as called by its users.  Either a    *)
(* StringsFile is written and the written bytes are read back, or a byte   *)
(* buffer found on disk is read.                                           *)
(***************************************************************************)
TablesInit ==
    /\ CodecIdle
    /\ MainIdle
    /\ HistoryIdle
    /\ LoopsIdle
    /\ tblWrite = NoCall
    /\ tblRead = NoCall
    /\ \/ tblFile \in TableFiles /\ tblBytes = NoBytes
       \/ tblFile = NoFile /\ tblBytes \in RawTables

WriteTable(kind) ==
    /\ tblFile # NoFile
    /\ tblWrite = NoCall
    /\ tblWrite' = [kind |-> kind, res |-> write_table(kind, tblFile)]
    /\ tblBytes' = IF tblWrite'.res.ok THEN tblWrite'.res.val ELSE tblBytes
    /\ UNCHANGED <<tblFile, tblRead, notTbl>>

ReadTable(kind) ==
    /\ tblRead = NoCall
    /\ tblFile # NoFile => tblWrite # NoCall /\ tblWrite.res.ok
    /\ tblRead' = [kind |-> kind, res |-> read_table(kind, tblBytes)]
    /\ UNCHANGED <<tblFile, tblBytes, tblWrite, notTbl>>

TablesNext ==
    \/ \E kind \in StringsKinds : WriteTable(kind)
    \/ \E kind \in StringsKinds : ReadTable(kind)

SpecTables == TablesInit /\ [][TablesNext]_vars

(***************************************************************************)
(* Inputs of the plugin codec: byte buffers laid out as the record, group  *)
(* and subrecord layouts prescribe, with the defects a file can carry.     *)
(***************************************************************************)
MaxFrags == 2

MaxSubs == 2

TagNPC == <<78, 80, 67, 95>>

TagBOOK == <<66, 79, 79, 75>>

TagDATA == <<68, 65, 84, 65>>

make_subrecord(tag, data) == tag \o u16_to_le_bytes(Len(data)) \o data

\* an XXXX marker announcing n bytes for the next subrecord
MakeMarker(n) == TagXXXX \o u16_to_le_bytes(4) \o u32_to_le_bytes(n)

\* a record whose size field is the stored payload's length plus sizeAdj
MakeRecord(tag, form_id, flags, stored, sizeAdj) ==
    tag \o u32_to_le_bytes(Len(stored) + sizeAdj) \o u32_to_le_bytes(flags)
        \o u32_to_le_bytes(form_id)
        \o u16_to_le_bytes(513) \o u16_to_le_bytes(3) \o u16_to_le_bytes(44)
        \o u16_to_le_bytes(5)
        \o stored

\* a group whose size field is header + children plus sizeAdj
MakeGroup(label, children, sizeAdj) ==
    TagGRUP \o u32_to_le_bytes(GROUP_HEADER_SIZE + Len(children) + sizeAdj) \o label
        \o u32_to_le_bytes(0) \o u32_to_le_bytes(772) \o u32_to_le_bytes(6)
        \o children

\* a compressed payload as another encoder may have written it: any size hint,
\* any level byte, bytes after the end of the stream
MakeCompressed(stream, hint, level, trailing) ==
    u32_to_le_bytes(hint)
        \o <<120, level>> \o u32_to_le_bytes(Len(stream)) \o stream \o <<ByteSum(stream)>>
        \o trailing

\* FULL "Hi\0"; DESC "Abc" (no terminator); FULL "" (not text); FULL with a 4-byte
\* payload; DATA (no string tag); a bare marker for 3 bytes; a FULL whose length
\* field (7) is overridden by a marker; two bytes that are no subrecord header; a
\* bare marker for 9 bytes; a marker whose length field is 3; a marker with 2
\* payload bytes; a DATA that declares 5 bytes and holds 1
Fragments ==
    { make_subrecord(TagFULL, <<72, 105, 0>>),
      make_subrecord(TagDESC, <<65, 98, 99>>),
      make_subrecord(TagFULL, <<>>),
      make_subrecord(TagFULL, <<1, 0, 0, 0>>),
      make_subrecord(TagDATA, <<7>>),
      MakeMarker(3),
      MakeMarker(3) \o TagFULL \o u16_to_le_bytes(7) \o <<89, 111, 0>>,
      <<9, 9>>,
      MakeMarker(9),
      TagXXXX \o u16_to_le_bytes(3) \o <<1, 2, 3>>,
      TagXXXX \o u16_to_le_bytes(4) \o <<3, 0>>,
      TagDATA \o u16_to_le_bytes(5) \o <<1>> }

Payloads == {Concat(fs) : fs \in SeqsUpTo(Fragments, MaxFrags)}

FormIdA == 16909060

PlainRecords == {MakeRecord(TagNPC, FormIdA, 0, p, 0) : p \in Payloads}

CompressedRecords ==
    {MakeRecord(TagBOOK, 10, RECORD_COMPRESSED + 1,
                MakeCompressed(p, hint, level, trailing), 0) :
        p \in Payloads, hint \in {0}, level \in {156, 1}, trailing \in {<<>>, <<0>>}}

SomeRecord == MakeRecord(TagNPC, 7, 0, make_subrecord(TagFULL, <<72, 105, 0>>), 0)

OtherRecord == MakeRecord(TagBOOK, 8, 0, make_subrecord(TagDESC, <<65, 98, 99>>), 0)

GroupInputs ==
    {MakeGroup(TagNPC, children, adj) \o rest :
        children \in {<<>>, SomeRecord, SomeRecord \o OtherRecord,
                      MakeGroup(TagBOOK, OtherRecord, 0) \o SomeRecord},
        adj \in {0, -1, 0 - Len(OtherRecord), 1},
        rest \in {<<>>, OtherRecord}}

\* a record whose DATA payload is the bytes of another record
HostRecord == MakeRecord(TagNPC, 9, 0, make_subrecord(TagDATA, OtherRecord), 0)

\* a group whose size field ends where the record inside HostRecord's payload begins
OverrunGroup == MakeGroup(TagNPC, HostRecord, 0 - Len(OtherRecord))

\* a file cut inside a record's header or payload, alone or after a whole record
TruncatedInputs ==
    {before \o SubSeq(SomeRecord, 1, n) :
        before \in {<<>>, OtherRecord}, n \in {1, 3, 4, 23, 24, Len(SomeRecord) - 1}}
        \cup {MakeRecord(TagNPC, 7, RECORD_COMPRESSED, <<1, 2, 3>>, 0),
              MakeRecord(TagNPC, 7, RECORD_COMPRESSED, <<0, 0, 0, 0, 120, 7, 0, 0, 0, 0, 1>>, 0)}

CodecInputs ==
    PlainRecords \cup CompressedRecords \cup GroupInputs \cup TruncatedInputs
        \cup {OverrunGroup}

\* a payload of n bytes
BigPayload(n) == [i \in 1..n |-> i % 251]

\* The state keeps a payload longer than DigestBytes in packed form: the length of
\* the BigPayload it equals, or (pattern < 0) its length and first bytes when it is
\* no BigPayload.  The codec operators always work on the unpacked bytes.
DigestBytes == 16

Pack(data) ==
    IF Len(data) <= DigestBytes THEN [bytes |-> data, pattern |-> 0]
    ELSE IF data = BigPayload(Len(data)) THEN [bytes |-> <<>>, pattern |-> Len(data)]
    ELSE [bytes |-> SubSeq(data, 1, DigestBytes), pattern |-> 0 - Len(data)]

Unpack(packed) == IF packed.pattern > 0 THEN BigPayload(packed.pattern) ELSE packed.bytes

PackList(subrecords) ==
    [i \in 1..Len(subrecords) |->
        [sub_type |-> subrecords[i].sub_type, data |-> Pack(subrecords[i].data)]]

UnpackList(list) ==
    [i \in 1..Len(list) |-> Subrecord(list[i].sub_type, Unpack(list[i].data))]

Digest(bytes) ==
    [len |-> Len(bytes),
     head |-> SubSeq(bytes, 1, IF Len(bytes) < DigestBytes THEN Len(bytes) ELSE DigestBytes)]

SubrecordPool ==
    { [sub_type |-> TagFULL, data |-> Pack(<<72, 105, 0>>)],
      [sub_type |-> TagDESC, data |-> Pack(<<>>)],
      [sub_type |-> TagDATA, data |-> [bytes |-> <<>>, pattern |-> U16_MAX]],
      [sub_type |-> TagFULL, data |-> [bytes |-> <<>>, pattern |-> U16_MAX + 1]],
      [sub_type |-> TagDATA, data |-> Pack(<<1, 2>>)],
      [sub_type |-> TagXXXX, data |-> Pack(<<3, 0, 0, 0>>)] }

SubrecordLists == SeqsUpTo(SubrecordPool, MaxSubs)

(***************************************************************************)
(* SpecCodec: parse_plugin and serialize_blocks applied to a byte buffer,  *)
(* serialize_subrecords and parse_subrecords applied to a subrecord list.  *)
(***************************************************************************)
CodecInit ==
    /\ TablesIdle
    /\ MainIdle
    /\ HistoryIdle
    /\ LoopsIdle
    /\ codTree = NoResult
    /\ codOut = NoResult
    /\ subBytes = NoResult
    /\ subParsed = NoResult
    /\ \/ codBytes \in CodecInputs /\ subList = NoList
       \/ codBytes = NoBytes /\ subList \in SubrecordLists

ParsePlugin ==
    /\ subList = NoList
    /\ codTree = NoResult
    /\ codTree' = parse_plugin(codBytes)
    /\ UNCHANGED <<codBytes, codOut, subList, subBytes, subParsed, notCod>>

SerializeBlocks ==
    /\ codTree.ok
    /\ codOut = NoResult
    /\ codOut' = Ok(serialize_blocks(codTree.val))
    /\ UNCHANGED <<codBytes, codTree, subList, subBytes, subParsed, notCod>>

SerializeSubrecords ==
    /\ subList # NoList
    /\ subBytes = NoResult
    /\ subBytes' = Ok(Digest(serialize_subrecords(UnpackList(subList))))
    /\ UNCHANGED <<codBytes, codTree, codOut, subList, subParsed, notCod>>

ParseSubrecords ==
    /\ subBytes.ok
    /\ subParsed = NoResult
    /\ subParsed' =
            LET parsed == parse_subrecords(serialize_subrecords(UnpackList(subList)))
            IN  IF parsed.ok THEN Ok(PackList(parsed.val)) ELSE parsed
    /\ UNCHANGED <<codBytes, codTree, codOut, subList, subBytes, notCod>>

CodecNext == ParsePlugin \/ SerializeBlocks \/ SerializeSubrecords \/ ParseSubrecords

SpecCodec == CodecInit /\ [][CodecNext]_vars

(***************************************************************************)
(* Inputs of Spec: plugins whose records carry up to MaxRecSubs subrecords *)
(* (text with and without terminator, an empty FULL, 4-byte payloads that  *)
(* are string ids 1 and 2, a DATA subrecord), plain and compressed, alone  *)
(* and inside groups, one plugin holding the same record twice, with the   *)
(* string tables present or absent.                                        *)
(***************************************************************************)
MaxRecSubs == 2

WalkSubrecords ==
    { make_subrecord(TagFULL, <<72, 105, 0>>),
      make_subrecord(TagDESC, <<65, 98, 99>>),
      make_subrecord(TagFULL, <<>>),
      make_subrecord(TagFULL, <<1, 0, 0, 0>>),
      make_subrecord(TagDESC, <<2, 0, 0, 0>>),
      make_subrecord(TagDATA, <<7>>) }

WalkPayloads == {Concat(fs) : fs \in SeqsUpTo(WalkSubrecords, MaxRecSubs)}

FormIdB == 10

FormIdC == 11

\* BOOK 0000000A, compressed, holding a FULL and a DESC text
BookRecord ==
    MakeRecord(TagBOOK, FormIdB, RECORD_COMPRESSED,
        compress_record_data(make_subrecord(TagFULL, <<72, 105, 0>>)
                                \o make_subrecord(TagDESC, <<65, 98, 99>>)), 0)

\* NPC_ 0000000B holding a localized FULL (id 1) and a DATA subrecord
LocalizedRecord ==
    MakeRecord(TagNPC, FormIdC, 0,
        make_subrecord(TagDATA, <<7>>) \o make_subrecord(TagFULL, <<1, 0, 0, 0>>), 0)

\* NPC_ 00000007 whose FULL and DESC payloads are: bytes that are not UTF-8; a
\* text with a BEL character; "!" (no letter or digit); "A\n" followed by a null
\* and a further byte; "A\tb1" without a null; four bytes that are a text ("Wxyz")
OddTextsRecord ==
    MakeRecord(TagNPC, FormIdA, 0,
        make_subrecord(TagFULL, <<255, 65>>)
            \o make_subrecord(TagDESC, <<7, 65>>)
            \o make_subrecord(TagFULL, <<33>>)
            \o make_subrecord(TagDESC, <<65, 10, 0, 66>>)
            \o make_subrecord(TagFULL, <<65, 9, 98, 49>>)
            \o make_subrecord(TagDESC, <<87, 120, 121, 122>>), 0)

WalkPlugins ==
    {MakeRecord(TagNPC, FormIdA, 0, p, 0) : p \in WalkPayloads}
        \cup {MakeRecord(TagBOOK, FormIdB, RECORD_COMPRESSED, compress_record_data(p), 0) :
                p \in WalkPayloads}
        \cup { BookRecord \o LocalizedRecord,
               MakeGroup(TagNPC, LocalizedRecord \o MakeGroup(TagBOOK, BookRecord, 0), 0),
               MakeGroup(TagBOOK, BookRecord, 0) \o SomeRecord \o LocalizedRecord,
               SomeRecord \o SomeRecord,
               OddTextsRecord,
               SubSeq(SomeRecord, 1, Len(SomeRecord) - 1) }

\* "Hello", "World", "Long"
TextHello == <<72, 101, 108, 108, 111>>

TextWorld == <<87, 111, 114, 108, 100>>

TextLong == <<76, 111, 110, 103>>

\* a .strings file whose directory names id 1 twice ("A", then "B")
TwiceIdOne ==
    u32_to_le_bytes(2) \o u32_to_le_bytes(4)
        \o u32_to_le_bytes(1) \o u32_to_le_bytes(0)
        \o u32_to_le_bytes(1) \o u32_to_le_bytes(2)
        \o <<65, 0, 66, 0>>

\* no tables; ids 1 and 2 in .strings; id 1 in .strings and id 2 in .dlstrings;
\* only id 2, in .ilstrings; id 1 in .strings and .dlstrings with id 2 in
\* .dlstrings and .ilstrings; a .strings file with a repeated id; a damaged one
WalkTables ==
    { EmptyBundle,
      [EmptyBundle EXCEPT
        !["strings"] = Some(write_strings(<<StringsEntry(2, TextWorld),
                                            StringsEntry(1, TextHello)>>).val)],
      [EmptyBundle EXCEPT
        !["strings"] = Some(write_strings(<<StringsEntry(1, TextHello)>>).val),
        !["dlstrings"] = Some(write_dlstrings(<<StringsEntry(2, TextLong)>>).val)],
      [EmptyBundle EXCEPT
        !["ilstrings"] = Some(write_ilstrings(<<StringsEntry(2, TextLong)>>).val)],
      [EmptyBundle EXCEPT
        !["strings"] = Some(write_strings(<<StringsEntry(1, TextHello)>>).val),
        !["dlstrings"] = Some(write_dlstrings(<<StringsEntry(1, TextLong),
                                                StringsEntry(2, TextWorld)>>).val),
        !["ilstrings"] = Some(write_ilstrings(<<StringsEntry(2, TextLong)>>).val)],
      [EmptyBundle EXCEPT !["strings"] = Some(TwiceIdOne)],
      [EmptyBundle EXCEPT !["strings"] = Some(<<1, 2, 3>>)] }

\* the text a user gives to the i-th extracted entry: "Yo1", "Yo2", ..
NewText(i) == <<89, 111, 48 + i>>

\* the ascending enumeration of a set of indices
RECURSIVE Ascending(_)
Ascending(S) ==
    IF S = {} THEN <<>> ELSE <<FirstOf(S)>> \o Ascending(S \ {FirstOf(S)})

\* the translations handed to apply_translations: any selection of the extracted
\* entries with their text changed, or the first entry sent to a table entry that
\* does not exist
EditsOf(results) ==
    {[k \in 1..Cardinality(S) |->
            [results[Ascending(S)[k]] EXCEPT !.text = NewText(Ascending(S)[k])]] :
        S \in SUBSET (1..Len(results))}
    \cup (IF results = <<>> THEN {}
          ELSE {<<[results[1] EXCEPT !.storage = Localized("dlstrings", 9)]>>})

\* translations of a record the plugin does not hold (BOOK 000000FF): an Inline one
\* and one that names an entry no table has
StrayEdits ==
    <<ExtractedString(format_key(TagBOOK, 255, TagFULL, 0), TagBOOK, TagFULL, 255, 0,
                      NewText(0), Inline),
      ExtractedString(format_key(TagBOOK, 255, TagDESC, 1), TagBOOK, TagDESC, 255, 1,
                      NewText(1), Localized("strings", 9))>>

\* the lists apply_translations is called with: the edits of the extracted entries,
\* and every entry edited followed by the stray translations
CallEdits(results) ==
    EditsOf(results) \cup
        {[k \in 1..Len(results) |-> [results[k] EXCEPT !.text = NewText(k)]] \o StrayEdits}

(***************************************************************************)
(* Spec: extract_strings and apply_translations, run one after another by  *)
(* a single-threaded caller.  "first" and "second" extract from "in",      *)
(* "apply" applies an edit of what "first" returned, "refresh" extracts    *)
(* from "out".  The while loop of each walk is taken one pop at a time.    *)
(***************************************************************************)
Init ==
    /\ TablesIdle
    /\ CodecIdle
    /\ HistoryIdle
    /\ LoopsIdle
    /\ calls = [c \in Calls |-> IdleCall]
    /\ \E plugin \in WalkPlugins, tables \in WalkTables :
          files = [p \in Paths |->
                    IF p = "in" THEN Some(plugin)
                    ELSE IF p = "out" THEN None
                    ELSE tables[p]]

Busy == \E c \in Calls : calls[c].pc = "walk"

CallPath(c) == IF c = "refresh" THEN "out" ELSE "in"

\* the frame of extract_strings when its loop begins, or when it has returned early
ExtractFrame(opened, fs) ==
    IF opened.ok
    THEN [IdleCall EXCEPT !.op = "extract", !.pc = "walk", !.seen = fs,
            !.blocks = opened.val.blocks,
            !.stack = ChildRefs(<<>>, Len(opened.val.blocks)),
            !.strings_map = StringsMap_new(opened.val.bundle)]
    ELSE [IdleCall EXCEPT !.op = "extract", !.pc = "done", !.seen = fs,
            !.result = opened]

\* extract_strings up to the loop: read, load_strings_bundle, parse_plugin
StartExtract(c) ==
    /\ c # "apply"
    /\ calls[c].pc = "idle"
    /\ ~Busy
    /\ c = "refresh" => calls["apply"].pc = "done"
    /\ calls' = [calls EXCEPT ![c] = ExtractFrame(OpenPlugin(files, CallPath(c)), files)]
    /\ UNCHANGED <<files, notMain>>

\* an iteration that takes any block off the stack instead of the last pushed
ExtractStepAnyOrder(c) ==
    /\ calls[c].op = "extract"
    /\ calls[c].pc = "walk"
    /\ \E k \in 1..Len(calls[c].stack) :
        LET stack == calls[c].stack
            ref == stack[k]
            rest == SubSeq(stack, 1, k - 1) \o SubSeq(stack, k + 1, Len(stack))
            block == BlockAt(calls[c].blocks, ref)
        IN  calls' = [calls EXCEPT ![c] =
                IF block.block = "Record"
                THEN [@ EXCEPT !.stack = rest, !.visited = Append(@, ref),
                        !.results = collect_strings(block, calls[c].strings_map, @)]
                ELSE [@ EXCEPT !.stack = rest \o ChildRefs(ref, Len(block.children))]]
    /\ UNCHANGED <<files, notMain>>

\* an iteration that drops a group without pushing its children
ExtractStepShallow(c) ==
    /\ calls[c].op = "extract"
    /\ calls[c].pc = "walk"
    /\ calls[c].stack # <<>>
    /\ LET stack == calls[c].stack
           ref == stack[Len(stack)]
           rest == SubSeq(stack, 1, Len(stack) - 1)
           block == BlockAt(calls[c].blocks, ref)
       IN  calls' = [calls EXCEPT ![c] =
                IF block.block = "Record"
                THEN [@ EXCEPT !.stack = rest, !.visited = Append(@, ref),
                        !.results = collect_strings(block, calls[c].strings_map, @)]
                ELSE [@ EXCEPT !.stack = rest]]
    /\ UNCHANGED <<files, notMain>>

\* one iteration of `while let Some(block) = stack.pop()` of extract_strings
ExtractStep(c) ==
    /\ calls[c].op = "extract"
    /\ calls[c].pc = "walk"
    /\ calls[c].stack # <<>>
    /\ LET stack == calls[c].stack
           ref == stack[Len(stack)]
           rest == SubSeq(stack, 1, Len(stack) - 1)
           block == BlockAt(calls[c].blocks, ref)
       IN  calls' = [calls EXCEPT ![c] =
                IF block.block = "Record"
                THEN [@ EXCEPT !.stack = rest, !.visited = Append(@, ref),
                        !.results = collect_strings(block, calls[c].strings_map, @)]
                ELSE [@ EXCEPT !.stack = rest \o ChildRefs(ref, Len(block.children))]]
    /\ UNCHANGED <<files, notMain>>

\* a return that leaves a copy of the plugin at the output path
FinishExtractCopying(c) ==
    /\ calls[c].op = "extract"
    /\ calls[c].pc = "walk"
    /\ calls[c].stack = <<>>
    /\ calls' = [calls EXCEPT ![c].pc = "done", ![c].result = Ok(calls[c].results)]
    /\ files' = [files EXCEPT !["out"] = files[CallPath(c)]]
    /\ UNCHANGED notMain

\* Ok(results)
FinishExtract(c) ==
    /\ calls[c].op = "extract"
    /\ calls[c].pc = "walk"
    /\ calls[c].stack = <<>>
    /\ calls' = [calls EXCEPT ![c].pc = "done", ![c].result = Ok(calls[c].results)]
    /\ UNCHANGED <<files, notMain>>

\* the frame of apply_translations when its loop begins, or when it has returned early
ApplyFrame(opened, fs, translations) ==
    IF opened.ok
    THEN [IdleCall EXCEPT !.op = "apply", !.pc = "walk", !.seen = fs,
            !.edits = translations,
            !.blocks = opened.val.blocks,
            !.stack = ChildRefs(<<>>, Len(opened.val.blocks)),
            !.bundle = opened.val.bundle,
            !.translations = TranslationMap(translations)]
    ELSE [IdleCall EXCEPT !.op = "apply", !.pc = "done", !.seen = fs,
            !.edits = translations, !.result = opened]

\* apply_translations up to the loop, for translations edited from what the call
\* "first" returned (none when that call failed)
StartApply ==
    /\ calls["apply"].pc = "idle"
    /\ ~Busy
    /\ calls["first"].pc = "done"
    /\ \E translations \in (IF calls["first"].result.ok
                             THEN CallEdits(calls["first"].result.val) ELSE {<<>>}) :
          calls' = [calls EXCEPT !["apply"] =
                        ApplyFrame(OpenPlugin(files, "in"), files, translations)]
    /\ UNCHANGED <<files, notMain>>

\* an iteration that, when a translation fails, still writes the plugin as edited so far
ApplyStepPersisting ==
    /\ calls["apply"].pc = "walk"
    /\ calls["apply"].stack # <<>>
    /\ LET frame == calls["apply"]
           ref == frame.stack[Len(frame.stack)]
           rest == SubSeq(frame.stack, 1, Len(frame.stack) - 1)
           block == BlockAt(frame.blocks, ref)
           applied == apply_to_record(block, frame.bundle, frame.translations)
       IN  /\ calls' = [calls EXCEPT !["apply"] =
                IF block.block = "Group"
                THEN [@ EXCEPT !.stack = rest \o ChildRefs(ref, Len(block.children))]
                ELSE IF ~applied.ok
                THEN [@ EXCEPT !.pc = "done", !.result = applied,
                        !.visited = Append(@, ref)]
                ELSE [@ EXCEPT !.stack = rest, !.visited = Append(@, ref),
                        !.blocks = ReplaceAt(frame.blocks, ref, applied.val.record),
                        !.bundle = applied.val.bundle,
                        !.translations = applied.val.translations]]
           /\ files' = IF block.block = "Record" /\ ~applied.ok
                       THEN [files EXCEPT !["out"] = Some(serialize_blocks(frame.blocks))]
                       ELSE files
    /\ UNCHANGED notMain

\* one iteration of `while let Some(block) = stack.pop()` of apply_translations
ApplyStep ==
    /\ calls["apply"].pc = "walk"
    /\ calls["apply"].stack # <<>>
    /\ LET frame == calls["apply"]
           ref == frame.stack[Len(frame.stack)]
           rest == SubSeq(frame.stack, 1, Len(frame.stack) - 1)
           block == BlockAt(frame.blocks, ref)
           applied == apply_to_record(block, frame.bundle, frame.translations)
       IN  calls' = [calls EXCEPT !["apply"] =
                IF block.block = "Group"
                THEN [@ EXCEPT !.stack = rest \o ChildRefs(ref, Len(block.children))]
                ELSE IF ~applied.ok
                THEN [@ EXCEPT !.pc = "done", !.result = applied,
                        !.visited = Append(@, ref)]
                ELSE [@ EXCEPT !.stack = rest, !.visited = Append(@, ref),
                        !.blocks = ReplaceAt(frame.blocks, ref, applied.val.record),
                        !.bundle = applied.val.bundle,
                        !.translations = applied.val.translations]]
    /\ UNCHANGED <<files, notMain>>

\* serialize_blocks, the write of the output plugin, then write_strings_bundle
FinishApply ==
    /\ calls["apply"].pc = "walk"
    /\ calls["apply"].stack = <<>>
    /\ LET output_bytes == serialize_blocks(calls["apply"].blocks)
           written == write_strings_bundle(calls["apply"].bundle,
                            [files EXCEPT !["out"] = Some(output_bytes)])
       IN  /\ files' = written.fs
           /\ calls' = [calls EXCEPT !["apply"].pc = "done",
                            !["apply"].result =
                                IF written.res.ok THEN Ok("out") ELSE written.res]
    /\ UNCHANGED notMain

Next ==
    \/ \E c \in Calls : StartExtract(c)
    \/ \E c \in Calls : ExtractStep(c)
    \/ \E c \in Calls : FinishExtract(c)
    \/ StartApply
    \/ ApplyStep
    \/ FinishApply

Spec == Init /\ [][Next]_vars

(***************************************************************************)
(* Properties of the string-table codec (SpecTables).                      *)
(***************************************************************************)
DistinctIds(f) == \A i, j \in 1..Len(f) : i # j => f[i].id # f[j].id

AscendingIds(f) == \A i \in 1..(Len(f) - 1) : f[i].id < f[i + 1].id

HasNul(t) == \E i \in 1..Len(t) : t[i] = 0

UpToNul(t) ==
    IF HasNul(t) THEN SubSeq(t, 1, FirstOf({i \in 1..Len(t) : t[i] = 0}) - 1) ELSE t

\* a StringsFile was written and the written bytes were read by the same variant
RoundTripDone ==
    /\ tblFile # NoFile
    /\ tblWrite # NoCall
    /\ tblRead # NoCall
    /\ tblRead.kind = tblWrite.kind

\* C7 as stated: for any StringsFile f with pairwise distinct ids,
\* read(write(f)) == f (same entries, same order, same text), for each variant.
C7_RoundTripIdentity ==
    (RoundTripDone /\ DistinctIds(tblFile)) => tblRead.res = Ok(tblFile)

\* C7 amended: for any StringsFile f with pairwise distinct ids, read(write(f))
\* succeeds and returns the entries of f in ascending id order, each with its text
\* (for the plain variant: its text up to the first NUL); hence read(write(f)) == f
\* when f is in ascending id order and, for the plain variant, no text holds a NUL.
C7_RoundTripSorted ==
    (RoundTripDone /\ DistinctIds(tblFile)) =>
        LET r == tblRead.res
            kept(t) == IF tblRead.kind = "strings" THEN UpToNul(t) ELSE t
        IN  /\ r.ok
            /\ Len(r.val) = Len(tblFile)
            /\ AscendingIds(r.val)
            /\ \A i \in 1..Len(tblFile) : \E j \in 1..Len(r.val) :
                    r.val[j] = StringsEntry(tblFile[i].id, kept(tblFile[i].text))
            /\ (/\ AscendingIds(tblFile)
                /\ tblRead.kind = "strings" =>
                        \A i \in 1..Len(tblFile) : ~HasNul(tblFile[i].text))
                    => r = Ok(tblFile)

C7_Witness ==
    /\ RoundTripDone
    /\ Len(tblFile) >= 2
    /\ DistinctIds(tblFile)
    /\ ~AscendingIds(tblFile)
    /\ tblRead.res.ok

\* directory entry k (0-based) of a written table
DirId(b, k) == u32_from_le_bytes(Slice(b, 8 + 8 * k, 12 + 8 * k))

DirOffset(b, k) == u32_from_le_bytes(Slice(b, 12 + 8 * k, 16 + 8 * k))

DirCount(b) == u32_from_le_bytes(Slice(b, 0, 4))

\* the data block of table b holds, at offset off, the text t as variant kind stores it
TextAt(kind, b, off, t) ==
    LET start == 8 + 8 * DirCount(b) + off
        stored == IF kind = "strings" THEN t \o <<0>>
                  ELSE u32_to_le_bytes(Len(t) + 1) \o t \o <<0>>
    IN  /\ start + Len(stored) <= Len(b)
        /\ Slice(b, start, start + Len(stored)) = stored

\* C8: writing a table (any variant) with two entries of the same id fails with
\* DuplicateId(id) and produces no bytes; otherwise the directory of the written
\* table lists the ids in strictly ascending order, whatever the input order, each
\* with the offset of its own text.
C8_DuplicateOrAscending ==
    tblWrite # NoCall =>
        LET r == tblWrite.res
        IN  IF ~DistinctIds(tblFile)
            THEN /\ ~r.ok
                 /\ r.err[1] = "DuplicateId"
                 /\ Cardinality({i \in 1..Len(tblFile) : tblFile[i].id = r.err[2]}) >= 2
                 /\ r.val = <<>>
                 /\ tblBytes = NoBytes
            ELSE /\ r.ok
                 /\ DirCount(r.val) = Len(tblFile)
                 /\ \A k \in 0..(Len(tblFile) - 2) : DirId(r.val, k) < DirId(r.val, k + 1)
                 /\ \A i \in 1..Len(tblFile) : \E k \in 0..(Len(tblFile) - 1) :
                        /\ DirId(r.val, k) = tblFile[i].id
                        /\ TextAt(tblWrite.kind, r.val, DirOffset(r.val, k), tblFile[i].text)

C8_Witness ==
    /\ tblWrite # NoCall
    /\ tblWrite.kind = "dlstrings"
    /\ Len(tblFile) = 2
    /\ tblWrite.res = Err("DuplicateId", tblFile[1].id)

\* directory entry i (0-based) of input b names a text run of its declared length,
\* wholly inside b, whose last byte is not null
UnterminatedRun(b, h, i) ==
    LET offset == DirOffset(b, i)
        len_offset == h.data_start + offset
        len == read_u32(b, len_offset).val
    IN  /\ offset < h.data_size
        /\ read_u32(b, len_offset).ok
        /\ len >= 1
        /\ len <= Len(b)
        /\ len_offset + 4 + len <= Len(b)
        /\ b[len_offset + 4 + len] # 0

RunInsideDataBlock(b, h, i) ==
    h.data_start + DirOffset(b, i) + 4 + read_u32(b, h.data_start + DirOffset(b, i)).val
        <= h.data_end

\* a length-prefixed read of a byte buffer found on disk, whose header is accepted
RawPrefixedRead ==
    /\ tblFile = NoFile
    /\ tblRead.kind \in {"dlstrings", "ilstrings"}
    /\ read_table_header(tblBytes).ok

RECURSIVE RecordsOf(_)
RecordsOf(blocks) ==
    IF blocks = <<>> THEN <<>>
    ELSE (IF Head(blocks).block = "Record" THEN <<Head(blocks)>>
          ELSE RecordsOf(Head(blocks).children))
            \o RecordsOf(Tail(blocks))

AllUncompressed(blocks) ==
    \A i \in 1..Len(RecordsOf(blocks)) : ~RecordsOf(blocks)[i].compressed

\* C1: for every byte buffer b that parse_plugin accepts (records uncompressed, no
\* translations applied), serialize_blocks(parse_plugin(b)) equals b byte for byte.
C1_ByteIdenticalRoundTrip ==
    (codOut.ok /\ codTree.ok /\ AllUncompressed(codTree.val)) => codOut.val = codBytes

\* sum of the serialized sizes of the first n subrecords of list
RECURSIVE SerializedOffset(_, _)
SerializedOffset(list, n) ==
    IF n = 0 THEN 0
    ELSE SerializedOffset(list, n - 1)
            + Len(list[n].data) + (IF Len(list[n].data) > 65535 THEN 16 ELSE 6)

\* C6: for every list of subrecords, none tagged XXXX,
\* parse_subrecords(serialize_subrecords(list)) returns the same tags, payload bytes
\* and lengths; a payload longer than 65535 bytes is written with a preceding XXXX
\* marker carrying its u32 length, a payload of 65535 bytes or fewer with its length
\* in the u16 field and no marker.
C6_ExtendedLengthRoundTrip ==
    (subParsed # NoResult /\ \A i \in 1..Len(subList) : subList[i].sub_type # TagXXXX) =>
        LET list == UnpackList(subList)
            out == serialize_subrecords(list)
        IN  /\ subParsed = Ok(subList)
            /\ subBytes = Ok(Digest(out))
            /\ Len(out) = SerializedOffset(list, Len(list))
            /\ \A i \in 1..Len(list) :
                LET at == SerializedOffset(list, i - 1)
                    n == Len(list[i].data)
                IN  IF n > 65535
                    THEN /\ Slice(out, at, at + 4) = TagXXXX
                         /\ Slice(out, at + 4, at + 6) = <<4, 0>>
                         /\ u32_from_le_bytes(Slice(out, at + 6, at + 10)) = n
                         /\ Slice(out, at + 10, at + 14) = list[i].sub_type
                         /\ Slice(out, at + 16, at + 16 + n) = list[i].data
                    ELSE /\ Slice(out, at, at + 4) = list[i].sub_type
                         /\ u16_from_le_bytes(Slice(out, at + 4, at + 6)) = n
                         /\ Slice(out, at + 6, at + 6 + n) = list[i].data

C6_Witness ==
    /\ subParsed.ok
    /\ Len(subList) = 2
    /\ subList[1].data.pattern = 65536
    /\ subList[2].data.pattern = 65535
    /\ Len(subParsed.val) = 2

(***************************************************************************)
(* Properties of extract_strings and apply_translations (Spec).            *)
(***************************************************************************)
Done(c) == calls[c].pc = "done"

Returned(c) == Done(c) /\ calls[c].result.ok

\* the record cut after its j-th subrecord
UpToSubrecord(record, j) ==
    [record EXCEPT !.subrecords = SubSeq(record.subrecords, 1, j)]

\* extraction emits an entry for the j-th subrecord of the record
IsExtracted(record, strings_map, j) ==
    /\ is_string_subrecord(record.subrecords[j].sub_type)
    /\ decode_subrecord_string(record.subrecords[j].data, strings_map).some

\* the entry that extraction emits for the j-th subrecord: the last one emitted
\* when the record ends there
EntryOf(record, strings_map, j) ==
    LET upTo == collect_strings(UpToSubrecord(record, j), strings_map, <<>>)
    IN  upTo[Len(upTo)]

\* "Zz", a text no input carries
ProbeText == <<90, 122>>

EndsWithNul(data) == data # <<>> /\ data[Len(data)] = 0

\* a translation carrying the key of the entry extracted from subrecord j, with
\* Inline storage so that the subrecord it lands on shows, is applied to subrecord
\* j of the record and to no other
AppliedExactlyAt(record, strings_map, j) ==
    LET probe == [EntryOf(record, strings_map, j) EXCEPT
                    !.text = ProbeText, !.storage = Inline]
        applied == apply_to_record(record, EmptyBundle, TranslationMap(<<probe>>))
    IN  /\ applied.ok
        /\ applied.val.record.subrecords =
              [record.subrecords EXCEPT ![j].data =
                  encode_string(ProbeText, EndsWithNul(record.subrecords[j].data))]

\* C2: for every plugin and every entry e that extract_strings returns, the key
\* apply_to_record recomputes for the subrecord e came from equals e's key: a
\* translation carrying e's key is applied to exactly that subrecord and no other,
\* also in records holding FULL/DESC subrecords that extraction skipped.
C2_KeysAgree ==
    Returned("first") =>
        LET records == RecordsOf(calls["first"].blocks)
        IN  \A r \in 1..Len(records) : \A j \in 1..Len(records[r].subrecords) :
                IsExtracted(records[r], calls["first"].strings_map, j) =>
                    AppliedExactlyAt(records[r], calls["first"].strings_map, j)

HasEntry(results, key, text, storage) ==
    \E k \in 1..Len(results) :
        /\ results[k].key = key
        /\ results[k].text = text
        /\ results[k].storage = storage

\* C3: for an entry with Inline storage that extract_strings returned, applying it
\* with its text replaced by T and extracting from the output file yields an entry
\* with the same key, text T and Inline storage.
C3_InlineRoundTrip ==
    (Returned("apply") /\ Done("refresh")) =>
        /\ calls["refresh"].result.ok
        /\ \A i \in 1..Len(calls["apply"].edits) :
              LET e == calls["apply"].edits[i]
              IN  e.storage = Inline =>
                    HasEntry(calls["refresh"].result.val, e.key, e.text, Inline)

\* the text of the entry `id` in the table file of that kind, as a set (empty when
\* the file is absent, unreadable or has no such entry)
TableTextsOf(fs, kind, id) ==
    IF ~fs[kind].some \/ ~read_table(kind, fs[kind].val).ok THEN {}
    ELSE LET file == read_table(kind, fs[kind].val).val
         IN  {file[k].text : k \in {k \in 1..Len(file) : file[k].id = id}}

\* every 4-byte payload of the input plugin that is this id is the same in the output
PayloadKept(input, output, id) ==
    LET before == RecordsOf(parse_plugin(input).val)
        after == RecordsOf(parse_plugin(output).val)
    IN  /\ parse_plugin(output).ok
        /\ Len(after) = Len(before)
        /\ \A r \in 1..Len(before) :
            /\ Len(after[r].subrecords) = Len(before[r].subrecords)
            /\ \A j \in 1..Len(before[r].subrecords) :
                  before[r].subrecords[j].data = u32_to_le_bytes(id) =>
                      after[r].subrecords[j] = before[r].subrecords[j]

\* the translation is an extracted entry with only its text changed
IsTextEdit(e, results) ==
    \E k \in 1..Len(results) : results[k].key = e.key /\ results[k].storage = e.storage

\* C4: when a translation with storage Localized{kind, id} is applied, the entry id
\* of the table of that kind gets the new text, the subrecord's 4-byte payload is
\* unchanged, and a following extract_strings returns the new text under that key
\* with the same storage.
C4_LocalizedRoundTrip ==
    Returned("apply") =>
        \A i \in 1..Len(calls["apply"].edits) :
            LET e == calls["apply"].edits[i]
            IN  (e.storage.storage = "Localized"
                    /\ IsTextEdit(e, calls["first"].result.val)) =>
                  /\ TableTextsOf(files, e.storage.kind, e.storage.id) = {e.text}
                  /\ PayloadKept(files["in"].val, files["out"].val, e.storage.id)
                  /\ Done("refresh") =>
                        /\ calls["refresh"].result.ok
                        /\ HasEntry(calls["refresh"].result.val, e.key, e.text, e.storage)

\* the records of a plugin file as they lie in its bytes, in file order: the flags
\* field and the stored payload of each (a GRUP header is stepped over)
RECURSIVE RawRecords(_, _)
RawRecords(bytes, offset) ==
    IF offset + RECORD_HEADER_SIZE > Len(bytes) THEN <<>>
    ELSE IF Slice(bytes, offset, offset + 4) = TagGRUP
    THEN RawRecords(bytes, offset + GROUP_HEADER_SIZE)
    ELSE LET size == u32_from_le_bytes(Slice(bytes, offset + 4, offset + 8))
         IN  <<[flags |-> u32_from_le_bytes(Slice(bytes, offset + 8, offset + 12)),
                stored |-> Slice(bytes, offset + 24, offset + 24 + size)]>>
                \o RawRecords(bytes, offset + 24 + size)

\* C5: the compression state is kept per record: in the file apply_translations
\* writes, each record has the flags it was parsed with; a record parsed with bit
\* 0x00040000 holds a u32 size hint and then the compressed stream of its (possibly
\* edited) subrecords, which decompresses to that stream; a record parsed without
\* the bit holds the stream itself.
C5_CompressionKept ==
    (Done("apply") /\ files["out"].some) =>
        LET before == RecordsOf(parse_plugin(files["in"].val).val)
            edited == RecordsOf(calls["apply"].blocks)
            raw == RawRecords(files["out"].val, 0)
        IN  /\ Len(raw) = Len(before)
            /\ Len(edited) = Len(before)
            /\ \A r \in 1..Len(before) :
                LET stream == serialize_subrecords(edited[r].subrecords)
                IN  /\ raw[r].flags = before[r].header.flags
                    /\ IF HasCompressedFlag(before[r].header.flags)
                       THEN /\ Len(raw[r].stored) >= 4
                            /\ u32_from_le_bytes(SubSeq(raw[r].stored, 1, 4)) = Len(stream)
                            /\ decompress_record_data(raw[r].stored) = Ok(stream)
                       ELSE raw[r].stored = stream

\* a compressed record went through apply_translations and came out edited
C5_Witness ==
    /\ Returned("apply")
    /\ files["out"].some
    /\ \E r \in 1..Len(RecordsOf(calls["apply"].blocks)) :
        /\ RecordsOf(calls["apply"].blocks)[r].compressed
        /\ RecordsOf(calls["apply"].blocks)[r]
              # RecordsOf(parse_plugin(files["in"].val).val)[r]

FailedBeforeWriting ==
    /\ Done("apply")
    /\ ~calls["apply"].result.ok
    /\ \/ calls["apply"].result.err[1] \in {"MissingStringsFile", "MissingStringId"}
       \/ ~OpenPlugin(calls["apply"].seen, "in").ok

\* C11: if apply_translations fails during the traversal with MissingStringsFile or
\* MissingStringId, or earlier with a read or parse error, no file has been created
\* or modified: the output plugin is not written and no table on disk has changed.
C11_NoWriteOnTraversalFailure ==
    FailedBeforeWriting => files = calls["apply"].seen

\* a translation named an id its table lacks, with tables on disk
C11_Witness ==
    /\ Done("apply")
    /\ calls["apply"].result.err[1] = "MissingStringId"
    /\ \E k \in StringsKinds : files[k].some

\* C12: whenever apply_translations returns an error of any kind, the files on disk
\* (output plugin and the three tables) are the same as before the call.
C12_NoPartialWrites ==
    (Done("apply") /\ ~calls["apply"].result.ok) => files = calls["apply"].seen

\* C13: extract_strings is read-only: whether it succeeds or fails, no step of it
\* creates, modifies or deletes a file.
C13_ExtractReadOnly ==
    [][(\E c \in Calls : calls'[c] # calls[c] /\ calls'[c].op = "extract")
            => files' = files]_vars

\* one extraction returned entries and another failed, with a table on disk
C13_Witness ==
    /\ Returned("first")
    /\ calls["first"].result.val # <<>>
    /\ Done("refresh")
    /\ ~calls["refresh"].result.ok
    /\ \E k \in StringsKinds : files[k].some

\* C15: in the list one extract_strings call returns, the keys are pairwise
\* distinct, for every plugin that parses, also one in which two records carry the
\* same type tag and form id.
C15_KeysDistinct ==
    \A c \in Calls : Returned(c) /\ calls[c].op = "extract" =>
        \A i, j \in 1..Len(calls[c].result.val) :
            calls[c].result.val[i].key = calls[c].result.val[j].key => i = j

(***************************************************************************)
(* Further properties of the plugin codec (SpecCodec).                     *)
(***************************************************************************)
\* the u32 size field of the record or group that starts at offset
SizeFieldAt(bytes, offset) == u32_from_le_bytes(Slice(bytes, offset + 4, offset + 8))

\* the blocks were parsed from offset on, one after the other (a record ends after
\* its payload, a group where its size field says), and every group's size field is
\* the size serialize_group writes for it
RECURSIVE GroupSizesKept(_, _, _)
GroupSizesKept(blocks, bytes, offset) ==
    IF blocks = <<>> THEN TRUE
    ELSE IF Head(blocks).block = "Record"
    THEN GroupSizesKept(Tail(blocks), bytes,
            offset + RECORD_HEADER_SIZE + SizeFieldAt(bytes, offset))
    ELSE /\ SizeFieldAt(bytes, offset)
                = SizeFieldAt(serialize_group(Head(blocks)), 0)
         /\ SizeFieldAt(bytes, offset) = Len(serialize_group(Head(blocks)))
         /\ GroupSizesKept(Head(blocks).children, bytes, offset + GROUP_HEADER_SIZE)
         /\ GroupSizesKept(Tail(blocks), bytes, offset + SizeFieldAt(bytes, offset))

\* C16: for every group that parse_group accepts, unedited, the size field that
\* serialize_group writes (24 + the serialized length of its children) equals the
\* size field read on parse: the children occupy exactly the bytes up to the
\* declared end and none extends past it.
C16_GroupSizeKept ==
    codTree.ok => GroupSizesKept(codTree.val, codBytes, 0)

\* the bytes from offset on are whole records that parse, then the beginning of a
\* record: fewer than 24 bytes, or a header whose data size runs past the end
RECURSIVE EndsInsideRecord(_, _)
EndsInsideRecord(bytes, offset) ==
    IF offset >= Len(bytes) THEN FALSE
    ELSE IF Len(bytes) - offset < RECORD_HEADER_SIZE THEN TRUE
    ELSE IF Slice(bytes, offset, offset + 4) = TagGRUP THEN FALSE
    ELSE IF SizeFieldAt(bytes, offset) > Len(bytes) - offset - RECORD_HEADER_SIZE THEN TRUE
    ELSE /\ parse_record(bytes, offset).ok
         /\ EndsInsideRecord(bytes, offset + RECORD_HEADER_SIZE + SizeFieldAt(bytes, offset))

\* C18: parsing a plugin whose bytes end inside a record header (fewer than 24
\* bytes remain at the record's start, 1 to 3 included) or inside a record payload
\* fails with InvalidRecord and returns no tree.
C18_TruncatedIsInvalidRecord ==
    (codTree # NoResult /\ EndsInsideRecord(codBytes, 0)) =>
        codTree = Err("InvalidRecord", 0)

\* the buffer is one record, header and payload, and nothing else
IsOneRecord(bytes) ==
    /\ Len(bytes) >= RECORD_HEADER_SIZE
    /\ Slice(bytes, 0, 4) # TagGRUP
    /\ SizeFieldAt(bytes, 0) = Len(bytes) - RECORD_HEADER_SIZE

\* the data buffer parse_record hands to parse_subrecords for that record
RecordDataOf(bytes) ==
    IF HasCompressedFlag(u32_from_le_bytes(Slice(bytes, 8, 12)))
    THEN decompress_record_data(Slice(bytes, RECORD_HEADER_SIZE, Len(bytes)))
    ELSE Ok(Slice(bytes, RECORD_HEADER_SIZE, Len(bytes)))

\* reading the subrecord headers of the buffer in order from cursor, with `pending`
\* the length a marker announced (-1 for none): some marker has a length field other
\* than 4 or fewer than 4 payload bytes left, or some subrecord's declared length
\* (the pending one if set, else its u16 field) runs past the end of the buffer
RECURSIVE Overruns(_, _, _)
Overruns(data, cursor, pending) ==
    IF cursor + 6 > Len(data) THEN FALSE
    ELSE LET field == u16_from_le_bytes(Slice(data, cursor + 4, cursor + 6))
             declared == IF pending >= 0 THEN pending ELSE field
         IN  IF Slice(data, cursor, cursor + 4) = TagXXXX
             THEN \/ field # 4
                  \/ cursor + 10 > Len(data)
                  \/ Overruns(data, cursor + 10,
                        u32_from_le_bytes(Slice(data, cursor + 6, cursor + 10)))
             ELSE \/ declared > Len(data)
                  \/ cursor + 6 + declared > Len(data)
                  \/ Overruns(data, cursor + 6 + declared, -1)

\* C17: parse_subrecords fails with InvalidSubrecord, and returns no list, whenever
\* a subrecord's declared length (its u16 field, or the pending XXXX override) runs
\* past the end of the record's data buffer, and whenever an XXXX marker's length
\* field is not 4 or its 4 payload bytes are not all inside the buffer.
C17_OverrunIsInvalidSubrecord ==
    (codTree # NoResult /\ IsOneRecord(codBytes) /\ RecordDataOf(codBytes).ok
        /\ Overruns(RecordDataOf(codBytes).val, 0, -1)) =>
            codTree = Err("InvalidSubrecord", 0)

\* a marker announced 3 bytes for a DATA subrecord that holds 1
C17_Witness ==
    /\ codBytes = MakeRecord(TagNPC, FormIdA, 0,
                        MakeMarker(3) \o make_subrecord(TagDATA, <<7>>), 0)
    /\ codTree = Err("InvalidSubrecord", 0)

\* subrecords as a writer lays them out: the markers that precede the subrecord
\* (the last one announces its length), its tag, its u16 length field, its payload
MarkedSubrecords ==
    { [markers |-> <<>>, sub_type |-> TagFULL, field |-> 3, data |-> <<72, 105, 0>>],
      [markers |-> <<>>, sub_type |-> TagDESC, field |-> 3, data |-> <<65, 98, 99>>],
      [markers |-> <<>>, sub_type |-> TagFULL, field |-> 0, data |-> <<>>],
      [markers |-> <<>>, sub_type |-> TagFULL, field |-> 4, data |-> <<1, 0, 0, 0>>],
      [markers |-> <<>>, sub_type |-> TagDATA, field |-> 1, data |-> <<7>>],
      [markers |-> <<3>>, sub_type |-> TagFULL, field |-> 7, data |-> <<89, 111, 0>>],
      [markers |-> <<3>>, sub_type |-> TagFULL, field |-> 3, data |-> <<72, 105, 0>>],
      [markers |-> <<9, 3>>, sub_type |-> TagFULL, field |-> 7, data |-> <<89, 111, 0>>] }

RenderMarked(d) ==
    Concat([i \in 1..Len(d.markers) |-> MakeMarker(d.markers[i])])
        \o d.sub_type \o u16_to_le_bytes(d.field) \o d.data

\* a buffer laid out from up to MaxFrags such subrecords, with the list it stands for
MarkedExpectations ==
    {[bytes |-> Concat([i \in 1..Len(ds) |-> RenderMarked(ds[i])]),
      list |-> [i \in 1..Len(ds) |-> Subrecord(ds[i].sub_type, ds[i].data)]] :
        ds \in SeqsUpTo(MarkedSubrecords, MaxFrags)}

\* C20: a subrecord tagged XXXX is never emitted in the parsed list; its u32
\* payload is the length used, instead of the u16 field, for exactly the next
\* subrecord that is no marker, and every later subrecord uses its own u16 field.
C20_MarkerProtocol ==
    codTree.ok =>
        /\ \A r \in 1..Len(RecordsOf(codTree.val)) :
            \A j \in 1..Len(RecordsOf(codTree.val)[r].subrecords) :
                RecordsOf(codTree.val)[r].subrecords[j].sub_type # TagXXXX
        /\ \A e \in MarkedExpectations :
            codBytes = MakeRecord(TagNPC, FormIdA, 0, e.bytes, 0) =>
                /\ Len(codTree.val) = 1
                /\ codTree.val[1].subrecords = e.list

\* a FULL whose length came from a marker, followed by a DATA with its own length
C20_Witness ==
    /\ codBytes = MakeRecord(TagNPC, FormIdA, 0,
                        MakeMarker(3) \o TagFULL \o u16_to_le_bytes(7) \o <<89, 111, 0>>
                            \o make_subrecord(TagDATA, <<7>>), 0)
    /\ codTree.ok
    /\ codTree.val[1].subrecords =
            <<Subrecord(TagFULL, <<89, 111, 0>>), Subrecord(TagDATA, <<7>>)>>

(***************************************************************************)
(* Further properties of apply_translations (Spec)                         *)
(***************************************************************************)
\* the translations the loop of apply_to_record matches in the record, in order,
\* from subrecord i on: the entry of the map under the key of each FULL or DESC
RECURSIVE MatchedFrom(_, _, _, _)
MatchedFrom(record, translations, i, index) ==
    IF i > Len(record.subrecords) THEN <<>>
    ELSE LET subrecord == record.subrecords[i]
             key == format_key(record.header.record_type, record.header.form_id,
                               subrecord.sub_type, index)
         IN  IF ~is_string_subrecord(subrecord.sub_type)
             THEN MatchedFrom(record, translations, i + 1, index)
             ELSE (IF key \in DOMAIN translations THEN <<translations[key]>> ELSE <<>>)
                    \o MatchedFrom(record, translations, i + 1, index + 1)

\* the translation is Localized and the bundle has no such table or no such entry
Lacks(bundle, updated) ==
    /\ updated.storage.storage = "Localized"
    /\ \/ ~bundle[updated.storage.kind].some
       \/ \A i \in 1..Len(bundle[updated.storage.kind].val) :
            bundle[updated.storage.kind].val[i].id # updated.storage.id

\* the error the claim names for it
ExpectedError(bundle, updated) ==
    IF ~bundle[updated.storage.kind].some
    THEN Err("MissingStringsFile", updated.storage.kind)
    ELSE Err("MissingStringId", updated.storage.id)

\* the positions in the matched translations that lack their table or entry
LackingIn(bundle, matched) == {j \in 1..Len(matched) : Lacks(bundle, matched[j])}

\* the iteration ends the call with the error of the first lacking translation and
\* leaves the bundle and the files as they were
FailsWith(bundle, matched) ==
    LackingIn(bundle, matched) # {} =>
        /\ calls'["apply"].pc = "done"
        /\ calls'["apply"].result =
                ExpectedError(bundle, matched[FirstOf(LackingIn(bundle, matched))])
        /\ calls'["apply"].bundle = bundle
        /\ files' = files

\* C19: when a matched translation has storage Localized{kind,id} and the table of
\* that kind was not loaded, apply_translations fails with MissingStringsFile(kind);
\* when the table was loaded without an entry of that id, it fails with
\* MissingStringId(id); in both cases the bundle's tables are not modified.
C19_MissingTableOrId ==
    [][(/\ calls["apply"].pc = "walk"
        /\ calls["apply"].stack # <<>>
        /\ calls'["apply"] # calls["apply"]
        /\ BlockAt(calls["apply"].blocks,
                calls["apply"].stack[Len(calls["apply"].stack)]).block = "Record")
        => FailsWith(calls["apply"].bundle,
                MatchedFrom(BlockAt(calls["apply"].blocks,
                                calls["apply"].stack[Len(calls["apply"].stack)]),
                            calls["apply"].translations, 1, 0))]_vars

\* one call named an id the loaded .dlstrings table lacks
C19_Witness ==
    /\ Done("apply")
    /\ calls["apply"].result = Err("MissingStringId", 9)
    /\ calls["apply"].bundle["dlstrings"].some
    /\ calls["apply"].edits[1].storage = Localized("dlstrings", 9)

\* one call named a table that was not loaded, with another table loaded
C19_WitnessNoTable ==
    /\ Done("apply")
    /\ calls["apply"].result = Err("MissingStringsFile", "dlstrings")
    /\ calls["apply"].bundle["strings"].some

(***************************************************************************)
(* SpecConcurrent: two calls of apply_translations on two plugin files,    *)
(* with the same workspace root, output directory and language, run on two *)
(* threads.  A path is <<directory, file stem, extension>>; the tables of  *)
(* a plugin are the three files {stem}_{language}.{kind} of the workspace. *)
(* Every read and every write of a file is a step of its own; the calls    *)
(* share nothing but the file system.                                      *)
(***************************************************************************)
Workers == {"a", "b"}

InputPath(plugin) == <<"in", plugin.stem, plugin.ext>>

\* output_dir.join(input_path.file_name())
OutputPath(plugin) == <<"out", plugin.stem, plugin.ext>>

\* strings_dir.join(format!("{base_name}_{language}.{}", kind.extension()))
TablePath(base_name, kind) == <<"Strings", base_name, kind>>

FooEsp == [stem |-> "Foo", ext |-> "esp"]

\* the other plugin: the same stem with another extension, or another stem
OtherPlugins == {[stem |-> "Foo", ext |-> "esm"], [stem |-> "Bar", ext |-> "esm"]}

\* the files one call addresses, under the path names of the single-call model
ViewOf(fs, plugin) ==
    [p \in Paths |-> IF p = "in" THEN fs[InputPath(plugin)]
                     ELSE IF p = "out" THEN fs[OutputPath(plugin)]
                     ELSE fs[TablePath(plugin.stem, p)]]

\* the file system with the output plugin and the tables of the view put back
PutBack(fs, plugin, view) ==
    [p \in DOMAIN fs |-> IF p = OutputPath(plugin) THEN view["out"]
                         ELSE IF p[1] = "Strings" /\ p[2] = plugin.stem THEN view[p[3]]
                         ELSE fs[p]]

\* the while loop of extract_strings, run to its end
RECURSIVE CollectWalk(_, _, _, _)
CollectWalk(blocks, stack, strings_map, results) ==
    IF stack = <<>> THEN results
    ELSE LET ref == stack[Len(stack)]
             rest == SubSeq(stack, 1, Len(stack) - 1)
             block == BlockAt(blocks, ref)
         IN  IF block.block = "Record"
             THEN CollectWalk(blocks, rest, strings_map,
                        collect_strings(block, strings_map, results))
             ELSE CollectWalk(blocks, rest \o ChildRefs(ref, Len(block.children)),
                        strings_map, results)

\* what extract_strings returns for an opened plugin (no entries if it fails)
ExtractedFrom(opened) ==
    IF ~opened.ok THEN <<>>
    ELSE CollectWalk(opened.val.blocks, ChildRefs(<<>>, Len(opened.val.blocks)),
                StringsMap_new(opened.val.bundle), <<>>)

\* the while loop of apply_translations, run to its end:
\* Ok([blocks, bundle]) or the error of apply_to_record
RECURSIVE ApplyWalk(_, _, _, _)
ApplyWalk(blocks, stack, bundle, translations) ==
    IF stack = <<>> THEN Ok([blocks |-> blocks, bundle |-> bundle])
    ELSE LET ref == stack[Len(stack)]
             rest == SubSeq(stack, 1, Len(stack) - 1)
             block == BlockAt(blocks, ref)
             applied == apply_to_record(block, bundle, translations)
         IN  IF block.block = "Group"
             THEN ApplyWalk(blocks, rest \o ChildRefs(ref, Len(block.children)),
                        bundle, translations)
             ELSE IF ~applied.ok THEN applied
             ELSE ApplyWalk(ReplaceAt(blocks, ref, applied.val.record), rest,
                        applied.val.bundle, applied.val.translations)

\* translation_map and the loop, for an opened plugin
WalkedFrom(opened, translations) ==
    IF ~opened.ok THEN opened
    ELSE ApplyWalk(opened.val.blocks, ChildRefs(<<>>, Len(opened.val.blocks)),
                opened.val.bundle, TranslationMap(translations))

\* the two writes that end apply_translations: the files they leave
WrittenBy(walked, fs) ==
    IF ~walked.ok THEN fs
    ELSE write_strings_bundle(walked.val.bundle,
            [fs EXCEPT !["out"] = Some(serialize_blocks(walked.val.blocks))]).fs

\* the files one whole call of apply_translations leaves
apply_translations(fs, translations) ==
    WrittenBy(WalkedFrom(OpenPlugin(fs, "in"), translations), fs)

\* the locals of one concurrent call; `k` counts the tables loaded or written
ConFrame(plugin, edits, fs) ==
    [plugin |-> plugin, edits |-> edits, seen |-> fs, pc |-> "read", k |-> 1,
     bytes |-> <<>>, blocks |-> <<>>, bundle |-> EmptyBundle, result |-> NoResult]

\* plugins that name table entries 1 and 2, and one with an inline text
ConPlugins ==
    { LocalizedRecord,
      MakeRecord(TagBOOK, FormIdB, 0, make_subrecord(TagDESC, <<2, 0, 0, 0>>), 0),
      SomeRecord }

\* both plugins on disk, no output yet, the same tables under both stems
ConFiles(other, bytesA, bytesB, tables) ==
    [p \in {InputPath(q) : q \in {FooEsp} \cup OtherPlugins}
            \cup {OutputPath(q) : q \in {FooEsp} \cup OtherPlugins}
            \cup {TablePath(s, k) : s \in {"Foo", "Bar"}, k \in StringsKinds} |->
        IF p = InputPath(FooEsp) THEN Some(bytesA)
        ELSE IF p = InputPath(other) THEN Some(bytesB)
        ELSE IF p[1] = "Strings" THEN tables[p[3]]
        ELSE None]

InitConcurrent ==
    /\ TablesIdle
    /\ CodecIdle
    /\ HistoryIdle
    /\ LoopsIdle
    /\ \E other \in OtherPlugins, bytesA \in ConPlugins, bytesB \in ConPlugins,
          tables \in WalkTables :
        /\ files = ConFiles(other, bytesA, bytesB, tables)
        /\ \E editsA \in EditsOf(ExtractedFrom(OpenPlugin(ViewOf(files, FooEsp), "in"))),
              editsB \in EditsOf(ExtractedFrom(OpenPlugin(ViewOf(files, other), "in"))) :
            calls = [w \in Workers |->
                        IF w = "a" THEN ConFrame(FooEsp, editsA, files)
                        ELSE ConFrame(other, editsB, files)]

Failed(frame, error) == [frame EXCEPT !.pc = "done", !.result = error]

\* std::fs::read(input_path)?
ReadPlugin(w) ==
    /\ calls[w].pc = "read"
    /\ calls' = [calls EXCEPT ![w] =
            IF ~files[InputPath(calls[w].plugin)].some THEN Failed(@, Err("Io", 0))
            ELSE [@ EXCEPT !.pc = "load", !.bytes = files[InputPath(calls[w].plugin)].val]]
    /\ UNCHANGED <<files, notMain>>

\* load_strings_bundle: the k-th of resolve_strings_path and load_strings_file(..)?
LoadTable(w) ==
    /\ calls[w].pc = "load"
    /\ LET kind == KindOrder[calls[w].k]
           loaded == load_strings_file(
                        files[TablePath(calls[w].plugin.stem, kind)], kind)
       IN  calls' = [calls EXCEPT ![w] =
                IF ~loaded.ok THEN Failed(@, loaded)
                ELSE [@ EXCEPT !.bundle[kind] = loaded.val,
                        !.k = IF @ = Len(KindOrder) THEN 1 ELSE @ + 1,
                        !.pc = IF calls[w].k = Len(KindOrder) THEN "walk" ELSE "load"]]
    /\ UNCHANGED <<files, notMain>>

\* parse_plugin(&bytes)?, translation_map and the whole loop: no file is touched
Traverse(w) ==
    /\ calls[w].pc = "walk"
    /\ LET walked == WalkedFrom(
                        BundleAndBlocks(Ok(calls[w].bundle), parse_plugin(calls[w].bytes)),
                        calls[w].edits)
       IN  calls' = [calls EXCEPT ![w] =
                IF ~walked.ok THEN Failed(@, walked)
                ELSE [@ EXCEPT !.pc = "store", !.blocks = walked.val.blocks,
                        !.bundle = walked.val.bundle]]
    /\ UNCHANGED <<files, notMain>>

\* std::fs::write(&output_path, output_bytes)?
StorePlugin(w) ==
    /\ calls[w].pc = "store"
    /\ files' = [files EXCEPT ![OutputPath(calls[w].plugin)] =
                    Some(serialize_blocks(calls[w].blocks))]
    /\ calls' = [calls EXCEPT ![w].pc = "tables"]
    /\ UNCHANGED notMain

\* write_strings_bundle: the k-th `if let Some(file)` block, then Ok(output_path)
StoreTable(w) ==
    /\ calls[w].pc = "tables"
    /\ LET kind == KindOrder[calls[w].k]
           path == TablePath(calls[w].plugin.stem, kind)
           table == calls[w].bundle[kind]
           bytes == write_table(kind, table.val)
           last == calls[w].k = Len(KindOrder)
       IN  /\ files' = IF table.some /\ bytes.ok
                       THEN [files EXCEPT ![path] = Some(bytes.val)] ELSE files
           /\ calls' = [calls EXCEPT ![w] =
                IF table.some /\ ~bytes.ok THEN Failed(@, Err("InvalidHeader", 0))
                ELSE IF last
                THEN [@ EXCEPT !.pc = "done", !.result = Ok(OutputPath(calls[w].plugin))]
                ELSE [@ EXCEPT !.k = @ + 1]]
    /\ UNCHANGED notMain

NextConcurrent ==
    \/ \E w \in Workers : ReadPlugin(w)
    \/ \E w \in Workers : LoadTable(w)
    \/ \E w \in Workers : Traverse(w)
    \/ \E w \in Workers : StorePlugin(w)
    \/ \E w \in Workers : StoreTable(w)

SpecConcurrent == InitConcurrent /\ [][NextConcurrent]_vars

\* the files left when the call of frame `frame` runs alone on fs
RunAlone(fs, frame) ==
    PutBack(fs, frame.plugin,
        apply_translations(ViewOf(fs, frame.plugin), frame.edits))

\* C14: for two apply_translations calls on two different plugin files with the
\* same workspace root and language, every interleaving of their file reads and
\* writes leaves the same final files (output plugins and tables) as running the
\* two calls one after the other, also when the plugins share a file stem.
C14_SameAsSequential ==
    (\A w \in Workers : calls[w].pc = "done") =>
        \/ files = RunAlone(RunAlone(calls["a"].seen, calls["a"]), calls["b"])
        \/ files = RunAlone(RunAlone(calls["a"].seen, calls["b"]), calls["a"])

(***************************************************************************)
(* Further properties of extract_strings (Spec)                            *)
(***************************************************************************)
\* the positions in KindOrder of the loaded tables that hold an entry with the id
Holders(bundle, id) ==
    {k \in 1..Len(KindOrder) :
        /\ bundle[KindOrder[k]].some
        /\ \E i \in 1..Len(bundle[KindOrder[k]].val) : bundle[KindOrder[k]].val[i].id = id}

\* the bytes before the first null byte (all of them when there is none)
BeforeNul(data) ==
    IF \E i \in 1..Len(data) : data[i] = 0
    THEN SubSeq(data, 1, FirstOf({i \in 1..Len(data) : data[i] = 0}) - 1)
    ELSE data

\* the text is one for which a payload is skipped: empty, not UTF-8, holding a
\* control character other than \n and \t, or holding no alphanumeric character
SkippedText(text) ==
    \/ text = <<>>
    \/ ~IsUtf8(text)
    \/ \E i \in 1..Len(text) : IsControlAt(text, i) /\ text[i] # 10 /\ text[i] # 9
    \/ \A i \in 1..Len(text) : ~IsAlphanumericAt(text, i)

\* `decoded` is the classification stated for the payload under the bundle
ClassifiedAs(data, bundle, decoded) ==
    IF Len(data) = 4 /\ Holders(bundle, u32_from_le_bytes(data)) # {}
    THEN LET kind == KindOrder[FirstOf(Holders(bundle, u32_from_le_bytes(data)))]
         IN  /\ decoded.some
             /\ decoded.val.storage = Localized(kind, u32_from_le_bytes(data))
             /\ \E i \in 1..Len(bundle[kind].val) :
                    /\ bundle[kind].val[i].id = u32_from_le_bytes(data)
                    /\ bundle[kind].val[i].text = decoded.val.text
    ELSE IF SkippedText(BeforeNul(data)) THEN ~decoded.some
    ELSE decoded = Some([text |-> BeforeNul(data), storage |-> Inline])

\* the FULL and DESC subrecords of the records, as <<record index, subrecord index>>
StringSubrecords(records) ==
    UNION {{<<r, j>> : j \in {j \in 1..Len(records[r].subrecords) :
                        is_string_subrecord(records[r].subrecords[j].sub_type)}} :
            r \in 1..Len(records)}

\* the entries the classification stated gives for the records: a text and storage
\* for every FULL and DESC subrecord that is not skipped
ClassifiedEntries(records, bundle, results) ==
    /\ \A p \in StringSubrecords(records) :
        LET record == records[p[1]]
            subrecord == record.subrecords[p[2]]
        IN  \/ ClassifiedAs(subrecord.data, bundle, None)
            \/ \E k \in 1..Len(results) :
                /\ results[k].record_type = record.header.record_type
                /\ results[k].form_id = record.header.form_id
                /\ results[k].subrecord_type = subrecord.sub_type
                /\ ClassifiedAs(subrecord.data, bundle,
                        Some([text |-> results[k].text, storage |-> results[k].storage]))
    /\ Len(results) =
            Cardinality({p \in StringSubrecords(records) :
                ~ClassifiedAs(records[p[1]].subrecords[p[2]].data, bundle, None)})

\* C21: a payload of exactly 4 bytes whose little-endian u32 is an id in a loaded
\* table is classified Localized{kind,id} with the text of the first table holding
\* it in the order strings, dlstrings, ilstrings; every other payload is Inline with
\* the bytes before the first null as text, or is skipped when that text is empty,
\* not UTF-8, holds a control character other than \n and \t, or no alphanumeric.
C21_Classification ==
    Returned("first") =>
        ClassifiedEntries(RecordsOf(calls["first"].blocks),
            load_strings_bundle(calls["first"].seen).val, calls["first"].result.val)

\* an id held by two tables was given the text of the first
C21_Witness ==
    /\ Returned("first")
    /\ \E k \in 1..Len(calls["first"].result.val) :
        /\ calls["first"].result.val[k].storage = Localized("strings", 1)
        /\ calls["first"].result.val[k].text = TextHello
    /\ Holders(load_strings_bundle(calls["first"].seen).val, 1) = {1, 2}

\* the number of FULL and DESC subrecords before the j-th subrecord of the record
StringOrdinal(record, j) ==
    Cardinality({i \in 1..(j - 1) : is_string_subrecord(record.subrecords[i].sub_type)})

\* the key apply_to_record forms for the j-th subrecord of the record
KeyAt(record, j) ==
    format_key(record.header.record_type, record.header.form_id,
               record.subrecords[j].sub_type, StringOrdinal(record, j))

\* every payload of `after` that differs from the one of `before` is the text of the
\* Inline translation of its key, followed by one null byte exactly when the
\* payload of `before` ended in a null byte
EditsEncoded(before, after, translations) ==
    \A r \in 1..Len(before) : \A j \in 1..Len(before[r].subrecords) :
        after[r].subrecords[j].data # before[r].subrecords[j].data =>
            /\ is_string_subrecord(before[r].subrecords[j].sub_type)
            /\ KeyAt(before[r], j) \in DOMAIN translations
            /\ translations[KeyAt(before[r], j)].storage = Inline
            /\ after[r].subrecords[j].data =
                    IF EndsWithNul(before[r].subrecords[j].data)
                    THEN translations[KeyAt(before[r], j)].text \o <<0>>
                    ELSE translations[KeyAt(before[r], j)].text

\* C22: after apply_translations replaces a subrecord payload with new text T, the
\* new payload is the UTF-8 bytes of T followed by exactly one null byte if the
\* original payload ended in a null byte, and exactly the bytes of T if it did not.
C22_TerminatorKept ==
    Returned("apply") =>
        EditsEncoded(RecordsOf(parse_plugin(calls["apply"].seen["in"].val).val),
            RecordsOf(calls["apply"].blocks), TranslationMap(calls["apply"].edits))

\* one call replaced a payload that ended in a null byte and one that did not
C22_Witness ==
    /\ Returned("apply")
    /\ \E r \in 1..Len(RecordsOf(calls["apply"].blocks)) :
        LET subrecords == RecordsOf(calls["apply"].blocks)[r].subrecords
        IN  \E i, j \in 1..Len(subrecords) :
                /\ subrecords[i].data = NewText(1) \o <<0>>
                /\ subrecords[j].data = NewText(2)

\* the entries are those of the record's FULL and DESC subrecords that yield one, in
\* subrecord order, numbered 0, 1, .. by one counter
NumberedFrom(record, emitted, entries) ==
    /\ Len(entries) = Len(emitted)
    /\ \A k \in 1..Len(entries) :
        /\ entries[k].index = k - 1
        /\ entries[k].record_type = record.header.record_type
        /\ entries[k].form_id = record.header.form_id
        /\ entries[k].subrecord_type = record.subrecords[emitted[k]].sub_type
        /\ entries[k].key = format_key(record.header.record_type, record.header.form_id,
                                record.subrecords[emitted[k]].sub_type, k - 1)

\* the iteration of the walk of call c on a record appends its numbered entries
AppendsNumbered(c) ==
    LET record == BlockAt(calls[c].blocks, calls[c].stack[Len(calls[c].stack)])
        old == calls[c].results
        new == calls'[c].results
    IN  record.block = "Record" =>
            /\ Len(new) >= Len(old)
            /\ SubSeq(new, 1, Len(old)) = old
            /\ NumberedFrom(record,
                    Ascending({j \in 1..Len(record.subrecords) :
                                IsExtracted(record, calls[c].strings_map, j)}),
                    SubSeq(new, Len(old) + 1, Len(new)))

\* C23: in the result of extract_strings, the entries that come from one record
\* carry the indices 0, 1, ..., n-1 in the order of their subrecords within that
\* record; the counter restarts at 0 for every record and counts FULL and DESC
\* subrecords together.
C23_IndexPerRecord ==
    [][\A c \in Calls :
        (/\ calls[c].op = "extract"
         /\ calls[c].pc = "walk"
         /\ calls[c].stack # <<>>
         /\ calls'[c] # calls[c]) => AppendsNumbered(c)]_vars

\* a record gave a FULL and a DESC entry numbered 0 and 1, the next record starts at 0
C23_Witness ==
    /\ Returned("first")
    /\ \E k \in 1..(Len(calls["first"].result.val) - 2) :
        /\ calls["first"].result.val[k].index = 0
        /\ calls["first"].result.val[k].subrecord_type = TagFULL
        /\ calls["first"].result.val[k + 1].index = 1
        /\ calls["first"].result.val[k + 1].subrecord_type = TagDESC
        /\ calls["first"].result.val[k + 2].index = 0

(***************************************************************************)
(* SpecWalk: the calls of Spec on plugins with nested groups.  A call of   *)
(* extract_strings that has entered its loop keeps taking steps (one       *)
(* thread runs it to its end); nothing obliges the caller to start a call. *)
(***************************************************************************)
\* a record without FULL or DESC
DataRecord == MakeRecord(TagNPC, 9, 0, make_subrecord(TagDATA, <<7>>), 0)

\* three levels of groups, an empty group, records before, inside and after
DeepPlugin ==
    MakeGroup(TagNPC,
        SomeRecord
            \o MakeGroup(TagBOOK,
                    MakeGroup(TagNPC, BookRecord \o LocalizedRecord, 0) \o DataRecord, 0)
            \o MakeGroup(TagBOOK, <<>>, 0), 0)
        \o DataRecord

WalkTrees ==
    { DeepPlugin,
      <<>>,
      MakeGroup(TagBOOK, <<>>, 0),
      MakeGroup(TagNPC, LocalizedRecord \o MakeGroup(TagBOOK, BookRecord, 0), 0),
      MakeGroup(TagBOOK, DataRecord, 0) \o SomeRecord \o LocalizedRecord }

\* no tables, or ids 1 and 2 in .strings
\* tables as another writer may lay them out, the directory not in id order:
\* ids 2 and 1 in .strings, ids 2 and 1 in .dlstrings
ForeignStrings ==
    TableLayout(<<StringsEntry(2, TextWorld), StringsEntry(1, TextHello)>>,
                <<TextWorld \o <<0>>, TextHello \o <<0>>>>)

ForeignDlstrings ==
    TableLayout(<<StringsEntry(2, TextLong), StringsEntry(1, TextWorld)>>,
                <<u32_to_le_bytes(Len(TextLong) + 1) \o TextLong \o <<0>>,
                  u32_to_le_bytes(Len(TextWorld) + 1) \o TextWorld \o <<0>>>>)

WalkTreeTables ==
    { EmptyBundle,
      [EmptyBundle EXCEPT
        !["strings"] = Some(write_strings(<<StringsEntry(2, TextWorld),
                                            StringsEntry(1, TextHello)>>).val)],
      [EmptyBundle EXCEPT
        !["strings"] = Some(ForeignStrings),
        !["dlstrings"] = Some(ForeignDlstrings)] }

InitWalk ==
    /\ TablesIdle
    /\ CodecIdle
    /\ HistoryIdle
    /\ LoopsIdle
    /\ calls = [c \in Calls |-> IdleCall]
    /\ \E plugin \in WalkTrees, tables \in WalkTreeTables :
          files = [p \in Paths |->
                    IF p = "in" THEN Some(plugin)
                    ELSE IF p = "out" THEN None
                    ELSE tables[p]]

\* a step of a call of extract_strings that is in its loop or about to return
ContinueExtract == \E c \in Calls : ExtractStep(c) \/ FinishExtract(c)

\* a step of any call that is in its loop or about to return
Continue == ContinueExtract \/ ApplyStep \/ FinishApply

SpecWalk == InitWalk /\ [][Next]_vars /\ WF_vars(ContinueExtract)

\* the references of all records of the tree, at any depth
RECURSIVE RecordRefs(_, _)
RecordRefs(blocks, path) ==
    UNION {IF blocks[i].block = "Record" THEN {Append(path, i)}
           ELSE RecordRefs(blocks[i].children, Append(path, i)) : i \in 1..Len(blocks)}

NoRepeat(s) == \A i, j \in 1..Len(s) : i # j => s[i] # s[j]

IsPrefix(s, t) == Len(s) <= Len(t) /\ s = SubSeq(t, 1, Len(s))

\* no record is handled twice, and a walk that ended has handled every record
VisitedOnce ==
    \A c \in Calls :
        /\ NoRepeat(calls[c].visited)
        /\ {calls[c].visited[k] : k \in 1..Len(calls[c].visited)}
                \subseteq RecordRefs(calls[c].blocks, <<>>)
        /\ (Done(c) /\ calls[c].result.ok) =>
                Len(calls[c].visited) = Cardinality(RecordRefs(calls[c].blocks, <<>>))

\* the walk of apply_translations follows the order of the walk of extract_strings
SameOrder ==
    (Returned("first") /\ calls["apply"].op = "apply") =>
        /\ IsPrefix(calls["apply"].visited, calls["first"].visited)
        /\ Returned("apply") => calls["apply"].visited = calls["first"].visited

\* C24: the explicit-stack walk in extract_strings visits every record of the
\* parsed tree exactly once, at every nesting depth of groups, and terminates; the
\* walk in apply_translations visits the records of the same tree in the same order.
C24_Traversal ==
    /\ [](VisitedOnce /\ SameOrder)
    /\ \A c \in Calls : (calls[c].op = "extract" /\ calls[c].pc = "walk") ~> Done(c)
    /\ <>[][~Continue]_vars

\* both walks went through the tree with three levels of groups
C24_Witness ==
    /\ Returned("first")
    /\ Returned("apply")
    /\ calls["first"].seen["in"] = Some(DeepPlugin)
    /\ Len(calls["apply"].visited) = 5
    /\ \E k \in 1..5 : Len(calls["first"].visited[k]) = 4

(***************************************************************************)
(* xt_core/src/formats/strings.rs                                          *)
(* The second implementation of the string table codec, translated         *)
(* statement by statement from its own source.                             *)
(***************************************************************************)
\* xt_core read_u32: input.get(offset..offset + 4).ok_or(UnexpectedEof)
core_read_u32(input, offset) ==
    IF Len(input) < offset + 4 THEN Err("UnexpectedEof", 0)
    ELSE Ok(u32_from_le_bytes(SubSeq(input, offset + 1, offset + 4)))

\* the duplicate check of both xt_core writers on the sorted entries: the id of
\* the first window with equal ids, -1 when there is none
RECURSIVE core_first_duplicate(_, _)
core_first_duplicate(entries, i) ==
    IF i + 1 > Len(entries) THEN -1
    ELSE IF entries[i].id = entries[i + 1].id THEN entries[i].id
    ELSE core_first_duplicate(entries, i + 1)

\* `for entry in &entries` of both xt_core writers from entry i on: the directory
\* bytes and the data block, the length prefix written when `prefixed`
RECURSIVE core_write_loop(_, _, _, _, _)
core_write_loop(entries, i, directory, data_block, prefixed) ==
    IF i > Len(entries) THEN [directory |-> directory, data_block |-> data_block]
    ELSE LET offset == Len(data_block)
             bytes == entries[i].text
             len == Len(bytes) + 1
         IN  core_write_loop(entries, i + 1,
                directory \o u32_to_le_bytes(entries[i].id) \o u32_to_le_bytes(offset),
                data_block \o (IF prefixed THEN u32_to_le_bytes(len) ELSE <<>>)
                    \o bytes \o <<0>>,
                prefixed)

\* the output of both xt_core writers: count, data_size, directory, data block
core_output(entries, laid) ==
    u32_to_le_bytes(Len(entries)) \o u32_to_le_bytes(Len(laid.data_block))
        \o laid.directory \o laid.data_block

core_write_strings(file) ==
    LET entries == sort_by_key(file)
        dup == core_first_duplicate(entries, 1)
    IN  IF dup # -1 THEN Err("DuplicateId", dup)
        ELSE Ok(core_output(entries, core_write_loop(entries, 1, <<>>, <<>>, FALSE)))

core_write_length_prefixed_strings(file) ==
    LET entries == sort_by_key(file)
        dup == core_first_duplicate(entries, 1)
    IN  IF dup # -1 THEN Err("DuplicateId", dup)
        ELSE Ok(core_output(entries, core_write_loop(entries, 1, <<>>, <<>>, TRUE)))

\* first position from `end` on that is data_end or holds a zero byte
RECURSIVE core_scan(_, _, _)
core_scan(input, end, data_end) ==
    IF end >= data_end THEN end
    ELSE IF input[end + 1] = 0 THEN end
    ELSE core_scan(input, end + 1, data_end)

\* the for loop of xt_core read_strings from directory entry i (0-based) on
RECURSIVE core_read_strings_loop(_, _, _, _, _, _)
core_read_strings_loop(input, count, data_size, data_start, i, entries) ==
    IF i >= count THEN Ok(entries)
    ELSE LET base == 8 + i * 8
             id == core_read_u32(input, base)
             offset == core_read_u32(input, base + 4)
         IN  IF ~id.ok THEN id
             ELSE IF ~offset.ok THEN offset
             ELSE IF offset.val >= data_size THEN Err("InvalidOffset", 0)
             ELSE LET start == data_start + offset.val
                      end == core_scan(input, start, data_start + data_size)
                  IN  IF end >= data_start + data_size THEN Err("MissingTerminator", 0)
                      ELSE IF ~IsUtf8(SubSeq(input, start + 1, end)) THEN Err("Utf8", 0)
                      ELSE core_read_strings_loop(input, count, data_size, data_start, i + 1,
                                Append(entries,
                                    StringsEntry(id.val, SubSeq(input, start + 1, end))))

\* the for loop of xt_core read_length_prefixed_strings from directory entry i on
RECURSIVE core_read_prefixed_loop(_, _, _, _, _, _)
core_read_prefixed_loop(input, count, data_size, data_start, i, entries) ==
    IF i >= count THEN Ok(entries)
    ELSE LET base == 8 + i * 8
             id == core_read_u32(input, base)
             offset == core_read_u32(input, base + 4)
         IN  IF ~id.ok THEN id
             ELSE IF ~offset.ok THEN offset
             ELSE IF offset.val >= data_size THEN Err("InvalidOffset", 0)
             ELSE LET len_offset == data_start + offset.val
                      len == core_read_u32(input, len_offset)
                      text_start == len_offset + 4
                  IN  IF ~len.ok THEN len
                      ELSE IF len.val = 0 THEN Err("InvalidLength", 0)
                      \* text_end > data_end; both operands are far below usize::MAX
                      ELSE IF len.val > Len(input)
                                \/ text_start + len.val > data_start + data_size
                           THEN Err("UnexpectedEof", 0)
                      ELSE LET text_end == text_start + len.val
                           IN  IF input[text_end] # 0 THEN Err("MissingTerminator", 0)
                               ELSE IF ~IsUtf8(SubSeq(input, text_start + 1, text_end - 1))
                                    THEN Err("Utf8", 0)
                               ELSE core_read_prefixed_loop(input, count, data_size,
                                        data_start, i + 1,
                                        Append(entries,
                                            StringsEntry(id.val,
                                                SubSeq(input, text_start + 1, text_end - 1))))

\* the header checks of both xt_core readers, then the loop of the variant
core_read(input, prefixed) ==
    IF Len(input) < 8 THEN Err("InvalidHeader", 0)
    ELSE LET count == core_read_u32(input, 0).val
             data_size == core_read_u32(input, 4).val
         IN  \* count.checked_mul(8) is None: count * 8 is above u32::MAX
             IF count > MaxDirCount THEN Err("InvalidHeader", 0)
             \* data_end > input.len(), evaluated without leaving the integer range
             ELSE IF count > Len(input) \/ data_size > Len(input)
                        \/ 8 + count * 8 + data_size > Len(input)
                  THEN Err("UnexpectedEof", 0)
             ELSE IF prefixed
                  THEN core_read_prefixed_loop(input, count, data_size, 8 + count * 8, 0, <<>>)
                  ELSE core_read_strings_loop(input, count, data_size, 8 + count * 8, 0, <<>>)

core_read_strings(input) == core_read(input, FALSE)

core_read_length_prefixed_strings(input) == core_read(input, TRUE)

\* xt_core write_dlstrings / write_ilstrings and read_dlstrings / read_ilstrings
\* delegate to the length-prefixed functions
core_write_table(kind, file) ==
    IF kind = "strings" THEN core_write_strings(file)
    ELSE core_write_length_prefixed_strings(file)

core_read_table(kind, input) ==
    IF kind = "strings" THEN core_read_strings(input)
    ELSE core_read_length_prefixed_strings(input)

\* C25: the two string table codecs are byte-compatible: for every StringsFile
\* the write function of xt_core returns the bytes or the error that the one of
\* xt_esp returned, and for every byte input the read function of xt_core returns
\* the StringsFile or the error that the one of xt_esp returned, for all three
\* variants.
C25_CodecsAgree ==
    /\ tblWrite # NoCall => tblWrite.res = core_write_table(tblWrite.kind, tblFile)
    /\ tblRead # NoCall => tblRead.res = core_read_table(tblRead.kind, tblBytes)
    /\ tblFile # NoFile =>
            \A kind \in StringsKinds :
                write_table(kind, tblFile) = core_write_table(kind, tblFile)
    /\ tblBytes # NoBytes =>
            \A kind \in StringsKinds :
                read_table(kind, tblBytes) = core_read_table(kind, tblBytes)

\* a table of two entries given out of order was written as ilstrings and read
\* back as strings, which gave other texts than the ones written, and both codecs
\* agree on the bytes and on the entries read
C25_Witness ==
    /\ tblFile # NoFile
    /\ Len(tblFile) = 2
    /\ tblFile[1].id > tblFile[2].id
    /\ tblWrite # NoCall
    /\ tblWrite.kind = "ilstrings"
    /\ tblWrite.res.ok
    /\ core_write_table("ilstrings", tblFile) = Ok(tblBytes)
    /\ tblRead # NoCall
    /\ tblRead.kind = "strings"
    /\ tblRead.res.ok
    /\ tblRead.res.val # sort_by_key(tblFile)
    /\ core_read_table("strings", tblBytes) = tblRead.res

(***************************************************************************)
(* xt_app/src/history.rs: EntryHistory                                     *)
(* An EntryOp is [kind |-> "SingleEdit", op |-> SingleEditOp] or           *)
(* [kind |-> "BatchTargetEdit", changes |-> sequence of BatchTargetChange]; *)
(* indexes are 0-based as in the source.                                   *)
(***************************************************************************)
SingleEditOp(index, before_source, before_target, after_source, after_target) ==
    [index |-> index, before_source |-> before_source, before_target |-> before_target,
     after_source |-> after_source, after_target |-> after_target]

BatchTargetChange(index, before_target, after_target) ==
    [index |-> index, before_target |-> before_target, after_target |-> after_target]

SingleEdit(op) == [kind |-> "SingleEdit", op |-> op, changes |-> <<>>]

BatchTargetEdit(changes) ==
    [kind |-> "BatchTargetEdit", op |-> SingleEditOp(0, "", "", "", ""), changes |-> changes]

Entry(key, source_text, target_text) ==
    [key |-> key, source_text |-> source_text, target_text |-> target_text]

with_limit(limit) == [past |-> <<>>, future |-> <<>>, limit |-> limit]

\* push_op without the drain of the oldest operations
push_op_keeping(history, op) ==
    [history EXCEPT !.past = Append(history.past, op), !.future = <<>>]

\* push_op: push, drain the overflow from the front, clear the future
push_op(history, op) ==
    LET pushed == Append(history.past, op)
        overflow == Len(pushed) - history.limit
    IN  [history EXCEPT
            !.past = IF Len(pushed) > history.limit
                     THEN SubSeq(pushed, overflow + 1, Len(pushed))
                     ELSE pushed,
            !.future = <<>>]

\* changes.retain(|c| c.before_target != c.after_target)
retain(changes) == SelectSeq(changes, LAMBDA c : c.before_target # c.after_target)

\* apply_single: Ok(entries after the edit), or Err when the index is out of range
apply_single(entries, op, forward) ==
    IF ~(op.index < Len(entries)) THEN [ok |-> FALSE, entries |-> entries]
    ELSE [ok |-> TRUE,
          entries |-> [entries EXCEPT ![op.index + 1] =
                Entry(@.key,
                      IF forward THEN op.after_source ELSE op.before_source,
                      IF forward THEN op.after_target ELSE op.before_target)]]

\* apply_batch_target from change i on: the loop returns false at the first index
\* out of range and leaves the entries it has already changed as they are
RECURSIVE apply_batch_target(_, _, _, _)
apply_batch_target(entries, changes, forward, i) ==
    IF i > Len(changes) THEN [ok |-> TRUE, entries |-> entries]
    ELSE IF ~(changes[i].index < Len(entries)) THEN [ok |-> FALSE, entries |-> entries]
    ELSE apply_batch_target(
            [entries EXCEPT ![changes[i].index + 1].target_text =
                IF forward THEN changes[i].after_target ELSE changes[i].before_target],
            changes, forward, i + 1)

apply_op(entries, op, forward) ==
    IF op.kind = "SingleEdit" THEN apply_single(entries, op.op, forward)
    ELSE apply_batch_target(entries, op.changes, forward, 1)

\* undo: [history, entries, ret] after the call; a failed apply_op clears both lists
undo(history, entries) ==
    IF history.past = <<>>
    THEN [history |-> history, entries |-> entries, ret |-> FALSE]
    ELSE LET op == history.past[Len(history.past)]
             popped == SubSeq(history.past, 1, Len(history.past) - 1)
             applied == apply_op(entries, op, FALSE)
         IN  IF ~applied.ok
             THEN [history |-> [history EXCEPT !.past = <<>>, !.future = <<>>],
                   entries |-> applied.entries, ret |-> FALSE]
             ELSE [history |-> [history EXCEPT !.past = popped,
                                               !.future = Append(history.future, op)],
                   entries |-> applied.entries, ret |-> TRUE]

redo(history, entries) ==
    IF history.future = <<>>
    THEN [history |-> history, entries |-> entries, ret |-> FALSE]
    ELSE LET op == history.future[Len(history.future)]
             popped == SubSeq(history.future, 1, Len(history.future) - 1)
             applied == apply_op(entries, op, TRUE)
         IN  IF ~applied.ok
             THEN [history |-> [history EXCEPT !.past = <<>>, !.future = <<>>],
                   entries |-> applied.entries, ret |-> FALSE]
             ELSE [history |-> [history EXCEPT !.future = popped,
                                               !.past = Append(history.past, op)],
                   entries |-> applied.entries, ret |-> TRUE]

\* the calls made on the history: limits, entries and edits
MaxLimit == 2

MaxEdits == 4

InitialEntries == <<Entry("k1", "s", "x")>>

SingleEditOps ==
    { SingleEditOp(0, "s", "x", "s", "y"),
      SingleEditOp(0, "s", "y", "t", "y"),
      SingleEditOp(0, "s", "x", "s", "x"),
      SingleEditOp(1, "s", "x", "s", "y") }

BatchEdits ==
    { <<>>,
      <<BatchTargetChange(0, "x", "x")>>,
      <<BatchTargetChange(0, "y", "x")>>,
      <<BatchTargetChange(0, "x", "z"), BatchTargetChange(0, "y", "y")>>,
      <<BatchTargetChange(0, "x", "y"), BatchTargetChange(1, "y", "x")>> }

InitHistory ==
    /\ TablesIdle
    /\ CodecIdle
    /\ MainIdle
    /\ LoopsIdle
    /\ \E limit \in 0..MaxLimit : hist = with_limit(limit)
    /\ histEntries = InitialEntries
    /\ histLast = [op |-> "none", arg |-> <<>>, ret |-> FALSE]
    /\ histUndone = 0
    /\ histRecorded = 0

RecordSingleEdit(op) ==
    LET effective ==
            ~(op.before_source = op.after_source /\ op.before_target = op.after_target)
    IN  /\ histRecorded < MaxEdits
        /\ hist' = IF effective THEN push_op(hist, SingleEdit(op)) ELSE hist
        /\ histLast' = [op |-> "record_single_edit", arg |-> SingleEdit(op), ret |-> effective]
        /\ histRecorded' = IF effective THEN histRecorded + 1 ELSE histRecorded
        /\ histUndone' = 0
        /\ UNCHANGED <<histEntries, notHist>>

RecordBatchTargetEdit(changes) ==
    LET kept == retain(changes)
    IN  /\ histRecorded < MaxEdits
        /\ hist' = IF kept = <<>> THEN hist ELSE push_op(hist, BatchTargetEdit(kept))
        /\ histLast' = [op |-> "record_batch_target_edit", arg |-> BatchTargetEdit(kept),
                        ret |-> kept # <<>>]
        /\ histRecorded' = IF kept = <<>> THEN histRecorded ELSE histRecorded + 1
        /\ histUndone' = 0
        /\ UNCHANGED <<histEntries, notHist>>

Undo ==
    LET r == undo(hist, histEntries)
    IN  /\ hist' = r.history
        /\ histEntries' = r.entries
        /\ histLast' = [op |-> "undo", arg |-> <<>>, ret |-> r.ret]
        /\ histUndone' = IF r.ret THEN histUndone + 1 ELSE 0
        /\ UNCHANGED <<histRecorded, notHist>>

Redo ==
    LET r == redo(hist, histEntries)
    IN  /\ hist' = r.history
        /\ histEntries' = r.entries
        /\ histLast' = [op |-> "redo", arg |-> <<>>, ret |-> r.ret]
        /\ histUndone' = 0
        /\ UNCHANGED <<histRecorded, notHist>>

Clear ==
    /\ hist' = [hist EXCEPT !.past = <<>>, !.future = <<>>]
    /\ histLast' = [op |-> "clear", arg |-> <<>>, ret |-> TRUE]
    /\ histUndone' = 0
    /\ histRecorded' = 0
    /\ UNCHANGED <<histEntries, notHist>>

NextHistory ==
    \/ \E op \in SingleEditOps : RecordSingleEdit(op)
    \/ \E changes \in BatchEdits : RecordBatchTargetEdit(changes)
    \/ Undo
    \/ Redo
    \/ Clear

SpecHistory == InitHistory /\ [][NextHistory]_vars

\* the last n elements of a sequence, all of it when it has fewer
LastN(s, n) == IF Len(s) > n THEN SubSeq(s, Len(s) - n + 1, Len(s)) ELSE s

\* the step is a call of record_single_edit or record_batch_target_edit that
\* returned true
RecordedEdit ==
    /\ histLast'.op \in {"record_single_edit", "record_batch_target_edit"}
    /\ histLast'.ret

\* C26: on a history created with_limit(L), whatever record_single_edit,
\* record_batch_target_edit, undo, redo and clear calls were made, at most L undo
\* calls in a row return true; recording an effective edit keeps the L most recent
\* operations of the past list, the oldest ones are dropped, and empties the redo
\* list.
C26_HistoryBound ==
    /\ [](histUndone <= hist.limit)
    /\ [][RecordedEdit =>
            /\ hist'.future = <<>>
            /\ hist'.past = LastN(Append(hist.past, histLast'.arg), hist.limit)]_vars

\* three edits were recorded on a history of limit 2 and two undo calls in a row
\* returned true, which emptied the past list
C26_Witness ==
    /\ hist.limit = 2
    /\ histRecorded = 3
    /\ histLast.op = "undo"
    /\ histLast.ret
    /\ histUndone = 2
    /\ hist.past = <<>>
    /\ Len(hist.future) = 2

(***************************************************************************)
(* What apply_translations leaves alone (Spec)                             *)
(***************************************************************************)
\* the j-th subrecord of the record is a FULL or DESC whose key is the key of an
\* Inline translation
InlineTarget(record, j, translations) ==
    /\ is_string_subrecord(record.subrecords[j].sub_type)
    /\ KeyAt(record, j) \in DOMAIN translations
    /\ translations[KeyAt(record, j)].storage = Inline

\* the tree with the payload of every such subrecord blanked: what is left is the
\* blocks in their order, the group and record headers, the subrecord tags in their
\* order and every other payload
RECURSIVE Untargeted(_, _)
Untargeted(blocks, translations) ==
    [b \in 1..Len(blocks) |->
        IF blocks[b].block = "Group"
        THEN [blocks[b] EXCEPT !.children = Untargeted(@, translations)]
        ELSE [blocks[b] EXCEPT !.subrecords =
                [j \in 1..Len(@) |->
                    IF InlineTarget(blocks[b], j, translations)
                    THEN Subrecord(@[j].sub_type, <<>>) ELSE @[j]]]]

\* the keys apply_to_record forms for the subrecords of the records
KeysOf(records) ==
    UNION {{KeyAt(records[r], j) : j \in 1..Len(records[r].subrecords)} :
            r \in 1..Len(records)}

\* C27: apply_translations changes only the payloads of FULL and DESC subrecords
\* whose key matches an Inline translation: the number and order of blocks, records
\* and subrecords, every tag, every other payload, every record header field and
\* every group header field are those of the parsed input; a translation whose key
\* matches no subrecord changes nothing and raises no error.
C27_OnlyTargetedPayloads ==
    LET frame == calls["apply"]
        opened == OpenPlugin(frame.seen, "in")
        translations == TranslationMap(frame.edits)
    IN  (Done("apply") /\ opened.ok) =>
            /\ Untargeted(frame.blocks, translations)
                    = Untargeted(opened.val.blocks, translations)
            /\ (DOMAIN translations) \cap KeysOf(RecordsOf(opened.val.blocks)) = {} =>
                    /\ frame.blocks = opened.val.blocks
                    /\ frame.bundle = opened.val.bundle
                    /\ frame.result.err[1] \notin {"MissingStringsFile", "MissingStringId"}
            /\ frame.result.err[1] \in {"MissingStringsFile", "MissingStringId"} =>
                    \E k \in (DOMAIN translations) \cap KeysOf(RecordsOf(opened.val.blocks)) :
                        translations[k].storage # Inline

\* a call with every extracted entry edited and the two stray translations returned
\* Ok: one payload of a record inside a group was replaced, and a DATA payload and a
\* localized FULL payload of the same tree are as they were
C27_Witness ==
    /\ Returned("apply")
    /\ Len(calls["apply"].edits) > Len(StrayEdits)
    /\ \E i \in 1..Len(calls["apply"].edits) : calls["apply"].edits[i] = StrayEdits[2]
    /\ calls["apply"].blocks # parse_plugin(calls["apply"].seen["in"].val).val
    /\ \E b \in 1..Len(calls["apply"].blocks) : calls["apply"].blocks[b].block = "Group"

(***************************************************************************)
(* The loops of parse_plugin, parse_group and parse_subrecords, one         *)
(* iteration at a time (SpecParse).  A frame is a running loop: of          *)
(* parse_plugin or parse_group over codBytes from `cursor` to `end`, or of  *)
(* parse_subrecords over the record's `data`.  `next` is the offset the     *)
(* function the loop belongs to hands back to its caller as `next`.         *)
(***************************************************************************)
Frame(fn, data, cursor, end, extended_len, next) ==
    [fn |-> fn, data |-> data, cursor |-> cursor, end |-> end,
     extended_len |-> extended_len, next |-> next]

\* a header check that takes any size field that stays inside the file
group_header_any_size(bytes, offset) ==
    IF offset + GROUP_HEADER_SIZE > Len(bytes) THEN Err("InvalidGroup", 0)
    ELSE LET size == esp_read_u32(bytes, offset + 4).val
         IN  IF size > Len(bytes) \/ offset + size > Len(bytes)
             THEN Err("InvalidGroup", 0)
             ELSE Ok(size)

\* parse_group before its loop: InvalidGroup, or the size of the group
group_header(bytes, offset) ==
    IF offset + GROUP_HEADER_SIZE > Len(bytes) THEN Err("InvalidGroup", 0)
    ELSE LET size == esp_read_u32(bytes, offset + 4).val
         IN  IF size < GROUP_HEADER_SIZE \/ size > Len(bytes) \/ offset + size > Len(bytes)
             THEN Err("InvalidGroup", 0)
             ELSE Ok(size)

\* parse_record before parse_subrecords: the error, or the data buffer handed to
\* parse_subrecords and data_end
record_data(bytes, offset) ==
    IF offset + RECORD_HEADER_SIZE > Len(bytes) THEN Err("InvalidRecord", 0)
    ELSE LET data_size == esp_read_u32(bytes, offset + 4).val
             flags == esp_read_u32(bytes, offset + 8).val
             data_start == offset + RECORD_HEADER_SIZE
             data_end == data_start + data_size
         IN  IF data_size > Len(bytes) \/ data_end > Len(bytes)
             THEN Err("InvalidRecord", 0)
             ELSE LET stored_data == Slice(bytes, data_start, data_end)
                      data == IF HasCompressedFlag(flags)
                              THEN decompress_record_data(stored_data)
                              ELSE Ok(stored_data)
                  IN  IF ~data.ok THEN data
                      ELSE Ok([data |-> data.val, data_end |-> data_end])

\* one iteration of the loop of parse_subrecords: InvalidSubrecord, or the cursor
\* and the pending length after it
subrecord_iteration(data, cursor, extended_len) ==
    LET sub_type == read_tag(data, cursor).val
        len == read_u16(data, cursor + 4).val
        payload_start == cursor + 6
    IN  IF sub_type = TagXXXX
        THEN IF len # 4 \/ payload_start + 4 > Len(data)
             THEN Err("InvalidSubrecord", 0)
             ELSE Ok([cursor |-> payload_start + len,
                      extended_len |-> esp_read_u32(data, payload_start).val])
        ELSE LET actual_len == IF extended_len # NoExtendedLen THEN extended_len ELSE len
                 payload_end == payload_start + actual_len
             IN  IF actual_len > Len(data) \/ payload_end > Len(data)
                 THEN Err("InvalidSubrecord", 0)
                 ELSE Ok([cursor |-> payload_end, extended_len |-> NoExtendedLen])

\* a file of an empty group and a record with a zero-length subrecord
EmptiesPlugin ==
    MakeGroup(TagNPC, <<>>, 0)
        \o MakeRecord(TagNPC, FormIdA, 0,
                make_subrecord(TagFULL, <<>>) \o make_subrecord(TagDATA, <<7>>), 0)

InitParse ==
    /\ TablesIdle
    /\ MainIdle
    /\ HistoryIdle
    /\ codBytes \in CodecInputs \cup {EmptiesPlugin}
    /\ codTree = NoResult
    /\ codOut = NoResult
    /\ subList = NoList
    /\ subBytes = NoResult
    /\ subParsed = NoResult
    /\ prsStack = <<Frame("parse_plugin", <<>>, 0, Len(codBytes), NoExtendedLen, 0)>>
    /\ prsResult = NoResult

Top == prsStack[Len(prsStack)]

\* the loop of parse_plugin or parse_group is about to run an iteration
AtBlock ==
    /\ prsResult = NoResult
    /\ prsStack # <<>>
    /\ Top.fn \in {"parse_plugin", "parse_group"}
    /\ Top.cursor < Top.end

Fail(error) ==
    /\ prsResult' = error
    /\ prsStack' = <<>>

\* let tag = read_tag(bytes, cursor)? fails
ReadTagFails ==
    /\ AtBlock
    /\ ~read_tag(codBytes, Top.cursor).ok
    /\ Fail(read_tag(codBytes, Top.cursor))
    /\ UNCHANGED notPrs

\* the iteration calls parse_group, which fails or starts its loop
EnterGroup ==
    /\ AtBlock
    /\ read_tag(codBytes, Top.cursor) = Ok(TagGRUP)
    /\ LET header == group_header(codBytes, Top.cursor)
       IN  IF ~header.ok THEN Fail(header)
           ELSE /\ prsStack' = Append(prsStack,
                        Frame("parse_group", <<>>, Top.cursor + GROUP_HEADER_SIZE,
                              Top.cursor + header.val, NoExtendedLen,
                              Top.cursor + header.val))
                /\ UNCHANGED prsResult
    /\ UNCHANGED notPrs

\* the iteration calls parse_record, which fails or calls parse_subrecords
EnterRecord ==
    /\ AtBlock
    /\ read_tag(codBytes, Top.cursor).ok
    /\ read_tag(codBytes, Top.cursor) # Ok(TagGRUP)
    /\ LET record == record_data(codBytes, Top.cursor)
       IN  IF ~record.ok THEN Fail(record)
           ELSE /\ prsStack' = Append(prsStack,
                        Frame("parse_subrecords", record.val.data, 0,
                              Len(record.val.data), NoExtendedLen, record.val.data_end))
                /\ UNCHANGED prsResult
    /\ UNCHANGED notPrs

\* one iteration of the loop of parse_subrecords
SubrecordStep ==
    /\ prsResult = NoResult
    /\ prsStack # <<>>
    /\ Top.fn = "parse_subrecords"
    /\ Top.cursor + 6 <= Len(Top.data)
    /\ LET step == subrecord_iteration(Top.data, Top.cursor, Top.extended_len)
       IN  IF ~step.ok THEN Fail(step)
           ELSE /\ prsStack' = [prsStack EXCEPT ![Len(prsStack)] =
                        [@ EXCEPT !.cursor = step.val.cursor,
                                  !.extended_len = step.val.extended_len]]
                /\ UNCHANGED prsResult
    /\ UNCHANGED notPrs

\* the loop of parse_group or of parse_subrecords ends: the function returns and
\* the iteration of the caller's loop that called it sets its cursor to `next`
ReturnToCaller ==
    /\ prsResult = NoResult
    /\ Len(prsStack) > 1
    /\ \/ Top.fn = "parse_group" /\ ~(Top.cursor < Top.end)
       \/ Top.fn = "parse_subrecords" /\ ~(Top.cursor + 6 <= Len(Top.data))
    /\ prsStack' = [SubSeq(prsStack, 1, Len(prsStack) - 1) EXCEPT
                        ![Len(prsStack) - 1].cursor = Top.next]
    /\ UNCHANGED <<prsResult, notPrs>>

\* the loop of parse_plugin ends: Ok(blocks)
FinishPlugin ==
    /\ prsResult = NoResult
    /\ Len(prsStack) = 1
    /\ ~(Top.cursor < Top.end)
    /\ prsResult' = Ok(<<>>)
    /\ prsStack' = <<>>
    /\ UNCHANGED notPrs

NextParse ==
    \/ ReadTagFails
    \/ EnterGroup
    \/ EnterRecord
    \/ SubrecordStep
    \/ ReturnToCaller
    \/ FinishPlugin

\* the loops run on: the caller is one thread that executes them
SpecParse == InitParse /\ [][NextParse]_vars /\ WF_vars(NextParse)

\* a step that ends an iteration without an error: an iteration of parse_plugin or
\* parse_group ends when the function it called returns, one of parse_subrecords
\* is one step; the loops that wait below are as they were
IterationEnds(stride_block, stride_subrecord) ==
    prsResult' = NoResult =>
        /\ Len(prsStack') < Len(prsStack) =>
                /\ prsStack'[Len(prsStack')].cursor
                        >= prsStack[Len(prsStack')].cursor + stride_block
                /\ prsStack'[Len(prsStack')].cursor <= Len(codBytes)
        /\ Len(prsStack') = Len(prsStack) =>
                prsStack'[Len(prsStack)].cursor >= Top.cursor + stride_subrecord
        /\ \A d \in 1..(Len(prsStack) - 1) :
                d < Len(prsStack') => prsStack'[d] = prsStack[d]

\* C28: parsing terminates on every finite input: each iteration of the loops of
\* parse_plugin, parse_group and parse_subrecords returns an error or moves its
\* cursor forward, by at least 24 bytes for a record or group and at least 6 for a
\* subrecord, also for a group of size exactly 24 and a zero-length subrecord; the
\* loops end, with the result of parse_plugin.
C28_ParsingTerminates ==
    /\ [][IterationEnds(RECORD_HEADER_SIZE, 6)]_vars
    /\ <>(prsResult # NoResult)
    /\ [](prsResult # NoResult =>
            /\ prsResult.ok = parse_plugin(codBytes).ok
            /\ prsResult.err = parse_plugin(codBytes).err)

\* the file of an empty group (size 24) and a record with a zero-length FULL was
\* parsed to its end
C28_Witness ==
    /\ codBytes = EmptiesPlugin
    /\ prsResult.ok
    /\ parse_plugin(codBytes).ok
    /\ Len(parse_plugin(codBytes).val) = 2
    /\ parse_plugin(codBytes).val[1].children = <<>>
    /\ parse_plugin(codBytes).val[2].subrecords[1].data = <<>>

(***************************************************************************)
(* The file apply_translations writes, read again (Spec)                   *)
(***************************************************************************)
\* bytes[offset..end] is a run of whole blocks: each record's size field is the
\* number of payload bytes up to the next block, each group's size field is 24 plus
\* the bytes of its children, which are such a run themselves
RECURSIVE Tiled(_, _, _)
Tiled(bytes, offset, end) ==
    IF offset = end THEN TRUE
    ELSE IF offset + RECORD_HEADER_SIZE > end THEN FALSE
    ELSE LET size == u32_from_le_bytes(Slice(bytes, offset + 4, offset + 8))
         IN  IF Slice(bytes, offset, offset + 4) = TagGRUP
             THEN /\ size >= GROUP_HEADER_SIZE
                  /\ offset + size <= end
                  /\ Tiled(bytes, offset + GROUP_HEADER_SIZE, offset + size)
                  /\ Tiled(bytes, offset + size, end)
             ELSE /\ offset + RECORD_HEADER_SIZE + size <= end
                  /\ Tiled(bytes, offset + RECORD_HEADER_SIZE + size, end)

\* the payload bytes of the records of a run of blocks, in file order
RECURSIVE StoredPayloads(_, _, _)
StoredPayloads(bytes, offset, end) ==
    IF offset + RECORD_HEADER_SIZE > end THEN <<>>
    ELSE LET size == u32_from_le_bytes(Slice(bytes, offset + 4, offset + 8))
         IN  IF Slice(bytes, offset, offset + 4) = TagGRUP
             THEN StoredPayloads(bytes, offset + GROUP_HEADER_SIZE, offset + size)
                    \o StoredPayloads(bytes, offset + size, end)
             ELSE <<Slice(bytes, offset + RECORD_HEADER_SIZE,
                          offset + RECORD_HEADER_SIZE + size)>>
                    \o StoredPayloads(bytes, offset + RECORD_HEADER_SIZE + size, end)

\* the payload serialize_record stores for each record of the tree
PayloadsOf(records) ==
    [r \in 1..Len(records) |->
        IF records[r].compressed
        THEN compress_record_data(serialize_subrecords(records[r].subrecords))
        ELSE serialize_subrecords(records[r].subrecords)]

\* `output` is the serialization of tree `t` and is read back as `again`
FixedPoint(output, t, again) ==
    /\ again = Ok(t)
    /\ serialize_blocks(again.val) = output
    /\ Tiled(output, 0, Len(output))
    /\ StoredPayloads(output, 0, Len(output)) = PayloadsOf(RecordsOf(t))

\* C29: serialized output is a fixed point: for the tree t that parse_plugin
\* produced and the translations edited, parse_plugin of the bytes serialize_blocks
\* wrote succeeds and yields the blocks, headers, subrecord tags and payloads of t,
\* and serializing again gives the same bytes; every record size field written is
\* the number of payload bytes that follow and every group size field is 24 plus
\* the bytes of its children.
C29_SerializedFixedPoint ==
    (Done("apply") /\ files["out"].some) =>
        FixedPoint(files["out"].val, calls["apply"].blocks,
                   parse_plugin(files["out"].val))

\* the tree of a group in a group, with a payload made longer by a translation, was
\* written and reads back as it was
C29_Witness ==
    /\ Returned("apply")
    /\ files["out"].some
    /\ Len(files["out"].val) > Len(files["in"].val)
    /\ \E b \in 1..Len(calls["apply"].blocks) :
        /\ calls["apply"].blocks[b].block = "Group"
        /\ \E c \in 1..Len(calls["apply"].blocks[b].children) :
            calls["apply"].blocks[b].children[c].block = "Group"
    /\ parse_plugin(files["out"].val) = Ok(calls["apply"].blocks)

(***************************************************************************)
(* The tables after apply_translations (SpecWalk)                          *)
(***************************************************************************)
\* some translation of the call names entry `id` of table `kind`
Targeted(edits, kind, id) ==
    \E i \in 1..Len(edits) : edits[i].storage = Localized(kind, id)

IdsOf(file) == {file[i].id : i \in 1..Len(file)}

TextsAt(file, id) == {file[i].text : i \in {j \in 1..Len(file) : file[j].id = id}}

\* the table read before the call (`was`) and the bytes at its path after it, read
\* as `is`: the bytes are what the writer lays out for their entries, the ids are
\* the same, and an entry no translation names has its text
TableRewritten(kind, was, is, bytes, edits) ==
    /\ was.ok
    /\ is.ok
    /\ write_table(kind, is.val) = Ok(bytes)
    /\ IdsOf(is.val) = IdsOf(was.val)
    /\ \A i \in 1..Len(was.val) :
        ~Targeted(edits, kind, was.val[i].id) =>
            TextsAt(is.val, was.val[i].id) = {was.val[i].text}

\* the path of the table before and after the call
TableEffect(kind, before, after, edits) ==
    IF ~before.some THEN ~after.some
    ELSE /\ after.some
         /\ TableRewritten(kind, read_table(kind, before.val),
                read_table(kind, after.val), after.val, edits)

\* C30: after a successful apply_translations every table that was loaded, touched
\* by a translation or not, is rewritten at the path it was loaded from
\* (<workspaceRoot>/Data/Strings/<stem>_<language>.<ext>), a table that was not
\* loaded is not created, and in each rewritten table the set of ids is the same as
\* before and every entry not targeted by a Localized translation keeps its text.
C30_TablesRewritten ==
    Returned("apply") =>
        \A kind \in StringsKinds :
            TableEffect(kind, calls["apply"].seen[kind], files[kind], calls["apply"].edits)

\* a call that changed entry 1 of .strings returned Ok: .strings holds the new text
\* and the text of entry 2, .dlstrings, which no translation named, was laid out
\* anew with its texts, and no .ilstrings was created
C30_Witness ==
    /\ Returned("apply")
    /\ calls["apply"].seen["strings"] = Some(ForeignStrings)
    /\ calls["apply"].seen["dlstrings"] = Some(ForeignDlstrings)
    /\ Targeted(calls["apply"].edits, "strings", 1)
    /\ read_strings(files["strings"].val)
            = Ok(<<StringsEntry(1, NewText(1)), StringsEntry(2, TextWorld)>>)
    /\ files["dlstrings"] # Some(ForeignDlstrings)
    /\ read_dlstrings(files["dlstrings"].val)
            = Ok(<<StringsEntry(1, TextWorld), StringsEntry(2, TextLong)>>)
    /\ ~files["ilstrings"].some

====
